---- MODULE Spec2Model ----
(***************************************************************************)
(* A model of the CSV question-answering application: the rule-based      *)
(* query handler (modules/basic_query_handler.py), the visualizer          *)
(* (modules/visualizer.py) and the session flow of app.py.                 *)
(*                                                                         *)
(* Encodings.  Strings of the program are TLA+ strings.  str.lower() is    *)
(* the table LowerTable over the names the model uses.  A question is the  *)
(* sequence of its space-separated words; substring tests are made word    *)
(* by word through the table Needles.  A table (DataFrame) is a record     *)
(* [cols, n, data]: the ordered column names, the number of rows and the   *)
(* cells of every column.  A cell is an integer: Null (NaN), a number      *)
(* 0..2, or a text value above TextBase whose integer                      *)
(* order is the text's lexicographic order.  Python's None is NoneVal.     *)
(* A mean is the exact fraction [sum, n]; n = 0 is NaN.                    *)
(***************************************************************************)
EXTENDS Integers, Sequences, FiniteSets, TLC

VARIABLES file_state, column_map, asked, answer, chart, agent, other, file_handler

vars == <<file_state, column_map, asked, answer, chart, agent, other, file_handler>>

(* ------------------------------ bounds -------------------------------- *)
MaxRows == 3
SessionRows == 1
TieRows == 2

(* ------------------------------ values -------------------------------- *)
NoneVal == "<None>"
Null == 0 - 1
TextBase == 2 + 1
NumVals == {0, 1, 2}
TextVals == {TextBase + 1, TextBase + 2}
IsNum(c) == c >= 0 /\ c < TextBase
IsText(c) == c > TextBase
IsNull(c) == c = Null

(* str.lower() on the names of the model; every other name is lowercase.  *)
LowerTable ==
  ("Price" :> "price") @@ ("Region" :> "region") @@ ("Bedrooms" :> "bedrooms")
  @@ ("City" :> "city") @@ ("Location" :> "location") @@ ("Category" :> "category")
  @@ ("Pool" :> "pool") @@ ("Area" :> "area") @@ ("ID" :> "id")
  @@ ("What" :> "what") @@ ("Average" :> "average") @@ ("How" :> "how")
  @@ ("Show" :> "show") @@ ("MAX" :> "max")
  @@ ("Status" :> "status") @@ ("State" :> "state")
  @@ ("Property_Type" :> "property_type") @@ ("Total_Count" :> "total_count")

Lower(s) == IF s \in DOMAIN LowerTable THEN LowerTable[s] ELSE s

LowerSeq(q) == [i \in 1..Len(q) |-> Lower(q[i])]

(* ------------------------------ helpers ------------------------------- *)
Min(S) == CHOOSE x \in S : \A y \in S : x <= y
Max(S) == CHOOSE x \in S : \A y \in S : x >= y

RECURSIVE SumSeq(_)
SumSeq(s) == IF s = <<>> THEN 0 ELSE Head(s) + SumSeq(Tail(s))

RECURSIVE SortSet(_)
SortSet(S) == IF S = {} THEN <<>> ELSE <<Min(S)>> \o SortSet(S \ {Min(S)})

SeqToSet(s) == {s[i] : i \in 1..Len(s)}

EmptyMap == [x \in {} |-> ""]
MapSet(m, k, v) == [x \in (DOMAIN m) \cup {k} |-> IF x = k THEN v ELSE m[x]]

(* ------------------------------ tables -------------------------------- *)
NoTable == [cols |-> <<"<no table>">>, n |-> 0, data |-> EmptyMap]

Columns(df) == SeqToSet(df.cols)
Column(df, c) == df.data[c]
NonNull(df, c) == {i \in 1..df.n : ~IsNull(df.data[c][i])}
HasText(df, c) == \E i \in 1..df.n : IsText(df.data[c][i])

(* ---------------------------- column resolver ------------------------- *)
column_aliases ==
  [region |-> <<"region", "location", "area", "neighborhood">>,
   sqft |-> <<"sqft", "square_feet", "sq_ft", "square_footage", "size">>,
   garage |-> <<"garage", "garage_spaces", "garages">>,
   fireplace |-> <<"fireplace", "fireplaces">>,
   pool |-> <<"pool", "has_pool">>,
   price |-> <<"price", "listing_price", "sale_price", "value">>]

(* Indices of the columns of df that equal name case-insensitively.       *)
MatchingColumns(df, name) ==
  {i \in 1..Len(df.cols) : Lower(df.cols[i]) = Lower(name)}

(* An alias search that takes the first column, in table order, equal to  *)
(* any alias of the key                                                   *)
AliasMatchByColumn(df, key) ==
  LET aliases == column_aliases[key]
      hits == {i \in 1..Len(df.cols) :
                 \E a \in 1..Len(aliases) : Lower(df.cols[i]) = Lower(aliases[a])}
  IN IF hits = {} THEN NoneVal ELSE df.cols[Min(hits)]

(* The alias loop of _get_actual_column_name: first alias in declared     *)
(* order with a matching column, then the first such column.              *)
AliasMatch(df, key) ==
  LET aliases == column_aliases[key]
      hits == {a \in 1..Len(aliases) : MatchingColumns(df, aliases[a]) # {}}
  IN IF hits = {} THEN NoneVal
     ELSE df.cols[Min(MatchingColumns(df, aliases[Min(hits)]))]

(* _get_actual_column_name: the resolved column and the updated memo.     *)
GetActualColumnName(df, cm, col_name) ==
  IF col_name \in DOMAIN cm THEN [col |-> cm[col_name], cm |-> cm]
  ELSE IF MatchingColumns(df, col_name) # {}
    THEN LET actual == df.cols[Min(MatchingColumns(df, col_name))]
         IN [col |-> actual, cm |-> MapSet(cm, col_name, actual)]
  ELSE IF Lower(col_name) \in DOMAIN column_aliases
            /\ AliasMatch(df, Lower(col_name)) # NoneVal
    THEN LET actual == AliasMatch(df, Lower(col_name))
         IN [col |-> actual, cm |-> MapSet(cm, col_name, actual)]
  ELSE [col |-> col_name, cm |-> cm]

(* _check_column_exists *)
CheckColumnExists(df, cm, col_name) ==
  GetActualColumnName(df, cm, col_name).col \in Columns(df)

(* ------------------------------ questions ----------------------------- *)
(* The keywords and aliases a lowercase word (of a question, or a column   *)
(* name) contains as a substring, for the words that contain more than    *)
(* themselves.                                                            *)
NeedleTable ==
  ("maximum" :> {"maximum", "max"}) @@ ("minimum" :> {"minimum", "min"})
  @@ ("fireplaces" :> {"fireplaces", "fireplace"})
  @@ ("region?" :> {"region"}) @@ ("regions" :> {"region"})
  @@ ("listing_price" :> {"listing_price", "price"})
  @@ ("barchart" :> {"bar", "chart"}) @@ ("meaning" :> {"mean"})
  @@ ("bedrooms" :> {"bedrooms", "rooms"}) @@ ("bathrooms" :> {"bathrooms", "rooms"})
  @@ ("property_type" :> {"property_type", "type"})
  @@ ("total_count" :> {"total_count", "total", "count"})

Needles(w) == IF w \in DOMAIN NeedleTable THEN NeedleTable[w] ELSE {w}

(* `needle in query` for a needle without a space *)
InQuery(q, needle) == \E i \in 1..Len(q) : needle \in Needles(q[i])

StartsWith(w, p) == w = p \/ <<w, p>> \in {<<"region?", "region">>, <<"regions", "region">>}

(* `"w1 w2" in query`: a word ending in w1 followed by one starting with w2 *)
InQuery2(q, w1, w2) ==
  \E i \in 1..(Len(q) - 1) : q[i] = w1 /\ StartsWith(q[i + 1], w2)

(* End positions of the matches of the keyword alternatives of a regex    *)
KeywordEnds(q, kws, phrases) ==
  {i \in 1..Len(q) : \E k \in kws : k \in Needles(q[i])}
  \cup {i \in 2..Len(q) : \E p \in phrases : q[i - 1] = p[1] /\ StartsWith(q[i], p[2])}

(* re.search("(?:k1|k2).*?(p1|p2)", query): a keyword, later a property   *)
SearchThen(q, kws, phrases, props) ==
  \E i \in KeywordEnds(q, kws, phrases) :
    \E j \in (i + 1)..Len(q) : \E p \in props : p \in Needles(q[j])

AggregateProps == {"price", "sqft", "bedrooms", "bathrooms", "year_built", "lot_size"}
CountProps == {"bedrooms", "bathrooms", "garage", "fireplace", "pool"}

(* supported_queries, in the order of the dict *)
Matches(q, query_type) ==
  CASE query_type = "average" -> SearchThen(q, {"average", "avg", "mean"}, {}, AggregateProps)
    [] query_type = "maximum" -> SearchThen(q, {"maximum", "max", "highest"}, {}, AggregateProps)
    [] query_type = "minimum" -> SearchThen(q, {"minimum", "min", "lowest"}, {}, AggregateProps)
    [] query_type = "count" -> SearchThen(q, {"count"}, {<<"how", "many">>}, CountProps)
    [] query_type = "region" -> KeywordEnds(q, {"region", "area", "location"}, {}) # {}
    [] query_type = "chart" ->
         KeywordEnds(q, {"chart", "plot", "graph", "visualize", "visualization"}, {}) # {}

(* The query types tested from the last to the first *)
ReversedQueryTypes == <<"chart", "region", "count", "minimum", "maximum", "average">>

QueryTypes == <<"average", "maximum", "minimum", "count", "region", "chart">>

(* The first query type whose pattern matches, or NoneVal *)
Classify(q) ==
  LET hits == {k \in 1..Len(QueryTypes) : Matches(q, QueryTypes[k])}
  IN IF hits = {} THEN NoneVal ELSE QueryTypes[Min(hits)]

(* ------------------------------ statistics ---------------------------- *)
RECURSIVE SumCells(_, _, _)
SumCells(df, c, R) ==
  IF R = {} THEN 0
  ELSE LET i == CHOOSE x \in R : TRUE IN df.data[c][i] + SumCells(df, c, R \ {i})

(* Series.mean() over the rows R: nulls are skipped; n = 0 is NaN *)
MeanOver(df, c, R) ==
  LET nn == R \cap NonNull(df, c) IN [sum |-> SumCells(df, c, nn), n |-> Cardinality(nn)]

(* The distinct non-null values of a column *)
Distinct(df, c) == {df.data[c][i] : i \in NonNull(df, c)}
RowsWith(df, c, v) == {i \in 1..df.n : df.data[c][i] = v}

(* ------------------------------ answers ------------------------------- *)
(* An answer names the return statement that built it (kind), the logical *)
(* column it is about (col), the logical column reported missing, the     *)
(* listed column names, the formatted value and the breakdown lines.      *)
NoValue == [fmt |-> NoneVal, sum |-> 0, n |-> 0]
(* A visualization request (viz_info); title holds the column names the  *)
(* title lists, none for a title that is a fixed text                     *)
NoViz ==
  [type |-> NoneVal, columns |-> <<>>, x_column |-> NoneVal, y_column |-> NoneVal,
   title |-> <<>>]

(* f"${v:,.2f}" for price, f"{v:.2f}" otherwise *)
Format(col, m) == [fmt |-> IF col = "price" THEN "$,.2f" ELSE ".2f", sum |-> m.sum, n |-> m.n]

Text(kind, col, missing, columns, value, lines, details) ==
  [kind |-> kind, col |-> col, missing |-> missing, columns |-> columns,
   value |-> value, lines |-> lines, details |-> details]

Returned(text, viz, cm) ==
  [res |-> [status |-> "ok", text |-> text, viz |-> viz], cm |-> cm]

(* An exception leaves the handler: no answer is returned *)
Raised(exc, cm) ==
  [res |-> [status |-> "raised",
            text |-> Text(exc, NoneVal, NoneVal, <<>>, NoValue, <<>>, <<>>),
            viz |-> NoViz],
   cm |-> cm]

(* "I couldn't find the '{col}' column in your data. Available columns are: ..." *)
NotFound(kind, col, df, cm) ==
  Returned(Text(kind, col, col, df.cols, NoValue, <<>>, <<>>), NoViz, cm)

AggregateColumns == <<"price", "sqft", "bedrooms", "bathrooms", "year_built", "lot_size">>

(* `for col in [...]: if col in query:` the first listed column in the text *)
FirstMentioned(q, names) ==
  LET hits == {k \in 1..Len(names) : InQuery(q, names[k])}
  IN IF hits = {} THEN NoneVal ELSE names[Min(hits)]

(* df.groupby(g)[v].mean().reset_index(): one row per distinct non-null   *)
(* key, in the sorted order of the keys                                   *)
GroupMeans(df, g, v, col) ==
  LET keys == SortSet(Distinct(df, g))
  IN [k \in 1..Len(keys) |->
        [label |-> keys[k]] @@ Format(col, MeanOver(df, v, RowsWith(df, g, keys[k])))]

(* _safe_groupby: None (NoneVal) when a column is missing or mean raises  *)
SafeGroupby(df, cm, groupby_col, value_col) ==
  LET g == GetActualColumnName(df, cm, groupby_col)
      v == GetActualColumnName(df, g.cm, value_col)
  IN IF g.col \notin Columns(df) \/ v.col \notin Columns(df) \/ HasText(df, v.col)
       THEN [ok |-> FALSE, lines |-> <<>>, cm |-> v.cm]
       ELSE [ok |-> TRUE, lines |-> GroupMeans(df, g.col, v.col, value_col), cm |-> v.cm]

(* _handle_average_query *)
HandleAverageQuery(q, df, cm) ==
  LET col == FirstMentioned(q, AggregateColumns)
      a == GetActualColumnName(df, cm, col)
      value == Format(col, MeanOver(df, a.col, 1..df.n))
      r == GetActualColumnName(df, a.cm, "region")
      grp == SafeGroupby(df, r.cm, "region", col)
  IN IF col = NoneVal
       THEN Returned(Text("average_specify", NoneVal, NoneVal, <<>>, NoValue, <<>>, <<>>), NoViz, cm)
     ELSE IF a.col \notin Columns(df) THEN NotFound("not_found_the", col, df, a.cm)
     ELSE IF HasText(df, a.col) THEN Raised("TypeError", a.cm)
     ELSE IF InQuery2(q, "by", "region") \/ InQuery2(q, "by", "area")
       THEN IF r.col \notin Columns(df)
              THEN Returned(Text("average_no_region", col, "region", df.cols, value, <<>>, <<>>),
                            NoViz, r.cm)
            ELSE IF ~grp.ok
              THEN Returned(Text("average_groupby_error", col, NoneVal, <<>>, value, <<>>, <<>>),
                            NoViz, grp.cm)
            ELSE Returned(Text("average_by_region", col, NoneVal, <<>>, value, grp.lines, <<>>),
                          [type |-> "bar", columns |-> <<r.col, a.col>>,
                           x_column |-> NoneVal, y_column |-> NoneVal, title |-> <<>>],
                          grp.cm)
     ELSE Returned(Text("average", col, NoneVal, <<>>, value, <<>>, <<>>), NoViz, a.cm)

DetailColumns == <<"id", "bedrooms", "bathrooms", "region">>

(* The memo after resolving the first k detail columns in turn *)
RECURSIVE DetailMemo(_, _, _)
DetailMemo(df, cm, k) ==
  IF k = 0 THEN cm
  ELSE GetActualColumnName(df, DetailMemo(df, cm, k - 1), DetailColumns[k]).cm

DetailColumn(df, cm, k) ==
  GetActualColumnName(df, DetailMemo(df, cm, k - 1), DetailColumns[k]).col

(* The detail suffix: the resolved detail columns that are in the table   *)
RECURSIVE Details(_, _, _, _)
Details(df, cm, row, k) ==
  IF k = 0 THEN <<>>
  ELSE Details(df, cm, row, k - 1)
       \o (IF DetailColumn(df, cm, k) \in Columns(df)
             THEN <<[name |-> DetailColumns[k], val |-> df.data[DetailColumn(df, cm, k)][row]]>>
             ELSE <<>>)

(* The last row of the table holding v in column c *)
LastRow(df, c, v) == Max(RowsWith(df, c, v))

(* df[df[c] == v].iloc[0]: the first row, in table order, holding v in c  *)
FirstRow(df, c, v) == Min(RowsWith(df, c, v))

(* _handle_max_query (which = "max") and _handle_min_query ("min")        *)
HandleExtremeQuery(which, q, df, cm) ==
  LET col == FirstMentioned(q, AggregateColumns)
      a == GetActualColumnName(df, cm, col)
      vals == {df.data[a.col][i] : i \in NonNull(df, a.col)}
      ext == IF which = "max" THEN Max(vals) ELSE Min(vals)
      row == FirstRow(df, a.col, ext)
  IN IF col = NoneVal
       THEN Returned(Text(IF which = "max" THEN "max_specify" ELSE "min_specify", NoneVal, NoneVal, <<>>, NoValue, <<>>, <<>>), NoViz, cm)
     ELSE IF a.col \notin Columns(df) THEN NotFound("not_found_the", col, df, a.cm)
     ELSE IF NonNull(df, a.col) = {} THEN Raised("IndexError", a.cm)
     ELSE IF HasText(df, a.col) THEN Raised("ValueError", a.cm)
     ELSE Returned(Text(which, col, NoneVal, <<>>, Format(col, [sum |-> ext, n |-> 1]), <<>>,
                        Details(df, a.cm, row, Len(DetailColumns))),
                   NoViz, DetailMemo(df, a.cm, Len(DetailColumns)))

(* Series.value_counts(): one entry per distinct non-null value, most     *)
(* frequent first, ties in order of first appearance                      *)
Before(df, c, v, w) ==
  \/ Cardinality(RowsWith(df, c, v)) > Cardinality(RowsWith(df, c, w))
  \/ /\ Cardinality(RowsWith(df, c, v)) = Cardinality(RowsWith(df, c, w))
     /\ FirstRow(df, c, v) < FirstRow(df, c, w)

RECURSIVE OrderCounts(_, _, _)
OrderCounts(df, c, S) ==
  IF S = {} THEN <<>>
  ELSE LET v == CHOOSE x \in S : \A y \in S \ {x} : Before(df, c, x, y)
       IN <<v>> \o OrderCounts(df, c, S \ {v})

CountLine(df, c, v) ==
  [label |-> v, fmt |-> "count", sum |-> Cardinality(RowsWith(df, c, v)), n |-> 1]

ValueCounts(df, c) ==
  LET order == OrderCounts(df, c, Distinct(df, c))
  IN [k \in 1..Len(order) |-> CountLine(df, c, order[k])]

(* value_counts().sort_index(): the same entries in the order of the values *)
ValueCountsSorted(df, c) ==
  LET order == SortSet(Distinct(df, c))
  IN [k \in 1..Len(order) |-> CountLine(df, c, order[k])]

CountViz(type, col) ==
  [type |-> type, columns |-> <<col, "count">>, x_column |-> NoneVal, y_column |-> NoneVal,
   title |-> <<>>]

(* The features of a count question tested from pool back to bedrooms    *)
ReversedCountFeatures == <<"pool", "fireplace", "garage", "bathrooms", "bedrooms">>

(* The if/elif chain of _handle_count_query, in its order *)
CountFeatures == <<"bedrooms", "bathrooms", "garage", "fireplace", "pool">>

(* _handle_count_query *)
HandleCountQuery(q, df, cm) ==
  LET feature == FirstMentioned(q, CountFeatures)
      a == GetActualColumnName(df, cm, feature)
  IN IF feature = NoneVal
       THEN Returned(Text("count_specify", NoneVal, NoneVal, <<>>, NoValue, <<>>, <<>>), NoViz, cm)
     ELSE IF a.col \notin Columns(df) THEN NotFound("not_found_a", feature, df, a.cm)
     ELSE IF feature = "pool"
       THEN Returned(Text("count_pool", feature, NoneVal, <<>>, NoValue,
                          <<CountLine(df, a.col, 1), CountLine(df, a.col, 0)>>, <<>>),
                     CountViz("pie", a.col), a.cm)
     ELSE Returned(Text("count", feature, NoneVal, <<>>, NoValue,
                        ValueCountsSorted(df, a.col), <<>>),
                   CountViz("bar", a.col), a.cm)

(* _handle_region_query *)
HandleRegionQuery(q, df, cm) ==
  LET r == GetActualColumnName(df, cm, "region")
      p == GetActualColumnName(df, r.cm, "price")
      grp == SafeGroupby(df, p.cm, "region", "price")
  IN IF r.col \notin Columns(df) THEN NotFound("not_found_a", "region", df, r.cm)
     ELSE IF InQuery(q, "count") \/ InQuery2(q, "how", "many")
       THEN Returned(Text("region_count", "region", NoneVal, <<>>, NoValue,
                          ValueCounts(df, r.col), <<>>),
                     CountViz("bar", r.col), r.cm)
     ELSE IF InQuery2(q, "average", "price") \/ InQuery2(q, "avg", "price")
       THEN IF p.col \notin Columns(df) THEN NotFound("not_found_a", "price", df, p.cm)
            ELSE IF ~grp.ok
              THEN Returned(Text("region_groupby_error", "price", NoneVal, <<>>, NoValue, <<>>, <<>>),
                            NoViz, grp.cm)
            ELSE Returned(Text("region_average", "price", NoneVal, <<>>, NoValue, grp.lines, <<>>),
                          [type |-> "bar", columns |-> <<r.col, p.col>>,
                           x_column |-> NoneVal, y_column |-> NoneVal, title |-> <<>>],
                          grp.cm)
     ELSE Returned(Text("region_generic", NoneVal, NoneVal, <<>>, NoValue, <<>>, <<>>), NoViz, r.cm)

(* dtypes as pandas.read_csv infers them *)
IsObjectDtype(df, c) == df.n = 0 \/ HasText(df, c)
IsNumericDtype(df, c) == ~IsObjectDtype(df, c)
NUniqueLimit == 10

Take(s, k) == SubSeq(s, 1, IF Len(s) < k THEN Len(s) ELSE k)

(* The column choice of _handle_chart_query *)
ChartColumns(q, df, viz_type) ==
  LET Mentioned(c) == InQuery(q, Lower(c))
      Categorical(c) == IsObjectDtype(df, c) \/ Cardinality(Distinct(df, c)) < NUniqueLimit
      Numeric(c) == IsNumericDtype(df, c)
      mentioned == SelectSeq(df.cols, Mentioned)
      cat == Take(SelectSeq(df.cols, Categorical), 1)
      OtherNumeric(c) == Numeric(c) /\ c # cat[1]
      heur == IF viz_type \in {"bar", "pie"}
                THEN IF cat # <<>> /\ viz_type = "bar"
                       THEN cat \o Take(SelectSeq(df.cols, OtherNumeric), 1)
                       ELSE cat
                ELSE Take(SelectSeq(df.cols, Numeric), 2)
  IN IF mentioned # <<>> THEN mentioned
     ELSE IF heur # <<>> THEN heur
     ELSE Take(df.cols, 2)

(* _handle_chart_query *)
HandleChartQuery(q, df, cm) ==
  LET viz_type == IF InQuery(q, "bar") THEN "bar"
                  ELSE IF InQuery(q, "pie") THEN "pie"
                  ELSE IF InQuery(q, "line") THEN "line"
                  ELSE IF InQuery(q, "scatter") THEN "scatter"
                  ELSE "bar"
      columns == ChartColumns(q, df, viz_type)
  IN IF columns = <<>> THEN Raised("IndexError", cm)
     ELSE Returned(Text("chart", NoneVal, NoneVal, Take(columns, 2), NoValue, <<>>, <<>>),
                   [type |-> viz_type, columns |-> <<>>, x_column |-> columns[1],
                    y_column |-> IF Len(columns) > 1 THEN columns[2] ELSE NoneVal,
                    title |-> columns],
                   cm)

(* `if not self.column_map: for col in df.columns: column_map[col.lower()] = col` *)
InitColumnMap(df, cm) ==
  IF DOMAIN cm # {} THEN cm
  ELSE [k \in {Lower(df.cols[i]) : i \in 1..Len(df.cols)} |->
          df.cols[Max({i \in 1..Len(df.cols) : Lower(df.cols[i]) = k})]]

(* BasicQueryHandler.process_query *)
HandlerProcessQuery(query, df, cm) ==
  LET q == LowerSeq(query)
      cm1 == InitColumnMap(df, cm)
      query_type == Classify(q)
  IN CASE query_type = "average" -> HandleAverageQuery(q, df, cm1)
       [] query_type = "maximum" -> HandleExtremeQuery("max", q, df, cm1)
       [] query_type = "minimum" -> HandleExtremeQuery("min", q, df, cm1)
       [] query_type = "count" -> HandleCountQuery(q, df, cm1)
       [] query_type = "region" -> HandleRegionQuery(q, df, cm1)
       [] query_type = "chart" -> HandleChartQuery(q, df, cm1)
       [] OTHER -> Returned(Text("dont_understand", NoneVal, NoneVal, <<>>, NoValue, <<>>, <<>>),
                            NoViz, cm1)

(* ------------------------------ visualizer --------------------------- *)
supported_plot_types ==
  {"bar", "line", "scatter", "pie", "histogram", "box", "violin", "heatmap", "area"}

column_mappings ==
  [region |-> <<"region", "location", "area", "city", "state", "country", "zone">>,
   country |-> <<"country", "nation", "land">>,
   city |-> <<"city", "town", "municipality">>,
   category |-> <<"category", "type", "class", "group", "classification", "property_type">>,
   product |-> <<"product", "item", "good", "merchandise", "service">>,
   status |-> <<"status", "condition", "state", "health">>,
   value |-> <<"value", "price", "cost", "amount", "sum", "total">>,
   quantity |-> <<"quantity", "count", "number", "amount", "total">>,
   age |-> <<"age", "years", "duration", "period">>,
   date |-> <<"date", "day", "time", "timestamp", "year_built">>,
   year |-> <<"year", "yr", "annual", "year_built">>,
   month |-> <<"month", "mo">>,
   size |-> <<"size", "square_feet", "area", "square_footage", "sq_ft", "sqft">>,
   rooms |-> <<"rooms", "bedrooms", "bathrooms", "beds", "baths">>]

(* `mapped_col.lower() in col_name.lower()` for some mapped_col of a type *)
MatchesType(col_name, col_type) ==
  LET mapped == IF col_type \in DOMAIN column_mappings
                  THEN column_mappings[col_type] ELSE <<col_type>>
  IN \E k \in 1..Len(mapped) : Lower(mapped[k]) \in Needles(Lower(col_name))

(* A search that takes the first column matching any of the types,       *)
(* whatever the position of the type in the list                          *)
FindFirstColumnOfAnyType(df, preferred_types) ==
  LET hits == {i \in 1..Len(df.cols) :
                 \E t \in 1..Len(preferred_types) : MatchesType(df.cols[i], preferred_types[t])}
  IN IF hits = {} THEN NoneVal ELSE df.cols[Min(hits)]

(* find_column_by_type: the first type with a match, then the first column *)
FindColumnByType(df, preferred_types) ==
  LET Hits(t) == {i \in 1..Len(df.cols) : MatchesType(df.cols[i], preferred_types[t])}
      types == {t \in 1..Len(preferred_types) : Hits(t) # {}}
  IN IF types = {} THEN NoneVal ELSE df.cols[Min(Hits(Min(types)))]

(* A figure: its kind, the columns on its axes and its marks, one per row *)
(* of the frame that was plotted.  The placeholder of                     *)
(* _create_error_figure has kind "placeholder" and no marks.              *)
NoFigure == [kind |-> NoneVal, x |-> NoneVal, y |-> NoneVal, marks |-> <<>>]
ErrorFigure == [kind |-> "placeholder", x |-> NoneVal, y |-> NoneVal, marks |-> <<>>]

(* A Chart Result: the keys of the returned dict and their values         *)
Result(keys, error, warning, figure) ==
  [keys |-> keys, error |-> error, warning |-> warning, figure |-> figure]

Failure(error) == Result({"error", "figure"}, error, NoneVal, ErrorFigure)
Warning(warning) == Result({"figure", "warning"}, NoneVal, warning, ErrorFigure)
Success(figure) == Result({"figure"}, NoneVal, NoneVal, figure)

(* plotly express raises when an argument names no column of the frame    *)
PxRaises(df, args) == \E a \in args : a # NoneVal /\ a \notin Columns(df)

(* px.<kind>(data, x=x, y=y): one mark per row *)
RowMarks(df, x, y) == [i \in 1..df.n |-> [x |-> df.data[x][i], y |-> df.data[y][i]]]

(* A count chart that drew a bar of height one for each distinct value,   *)
(* however many rows hold it                                              *)
UnitMarks(df, column) ==
  LET vc == ValueCounts(df, column)
  IN [k \in 1..Len(vc) |-> [x |-> vc[k].label, y |-> 1]]

(* px.<kind>(value_counts, x=column, y='count') after                     *)
(* data[column].value_counts().reset_index()                              *)
CountMarks(df, column) ==
  LET vc == ValueCounts(df, column)
  IN [k \in 1..Len(vc) |-> [x |-> vc[k].label, y |-> vc[k].sum]]

(* _create_bar_chart (the second definition, which is the one in force)   *)
CreateBarChart(df, x, y, color) ==
  IF x = NoneVal THEN Warning("No suitable column found for X axis")
  ELSE IF y # NoneVal
    THEN IF PxRaises(df, {x, y, color}) THEN Failure("Failed to create bar chart")
         ELSE Success([kind |-> "bar", x |-> x, y |-> y, marks |-> RowMarks(df, x, y)])
  ELSE IF x \notin Columns(df) THEN Failure("Failed to create bar chart")
  ELSE Success([kind |-> "bar", x |-> x, y |-> "count", marks |-> CountMarks(df, x)])

(* _create_line_chart (second definition) *)
CreateLineChart(df, x, y, color) ==
  IF x = NoneVal \/ y = NoneVal THEN Warning("Line charts require both X and Y columns")
  ELSE IF PxRaises(df, {x, y, color}) THEN Failure("Failed to create line chart")
  ELSE Success([kind |-> "line", x |-> x, y |-> y, marks |-> RowMarks(df, x, y)])

(* _create_scatter_plot (second definition) *)
CreateScatterPlot(df, x, y, color) ==
  IF x = NoneVal \/ y = NoneVal THEN Warning("Scatter plots require both X and Y columns")
  ELSE IF PxRaises(df, {x, y, color}) THEN Failure("Failed to create scatter plot")
  ELSE Success([kind |-> "scatter", x |-> x, y |-> y, marks |-> RowMarks(df, x, y)])

(* _create_pie_chart (second definition) *)
CreatePieChart(df, names, values) ==
  IF names = NoneVal THEN Warning("No suitable column found for pie chart categories")
  ELSE IF values # NoneVal
    THEN IF PxRaises(df, {names, values}) THEN Failure("Failed to create pie chart")
         ELSE Success([kind |-> "pie", x |-> names, y |-> values,
                       marks |-> RowMarks(df, names, values)])
  ELSE IF names \notin Columns(df) THEN Failure("Failed to create pie chart")
  ELSE Success([kind |-> "pie", x |-> names, y |-> "count", marks |-> CountMarks(df, names)])

(* _create_count_based_viz, called with viz_type="bar" *)
CreateCountBasedViz(df, column, color) ==
  IF column \notin Columns(df) THEN Failure("Failed to create count visualization")
  ELSE Success([kind |-> "bar", x |-> column, y |-> "count", marks |-> CountMarks(df, column)])

(* The discovery of create_visualization for the axes and the color the  *)
(* request leaves unset; a request is [type, x_column, y_column, color_by] *)
Discovered(df, req) ==
  [x |-> IF req.x_column = NoneVal
           THEN FindColumnByType(df, <<"category", "region", "product", "status">>)
           ELSE req.x_column,
   y |-> IF req.y_column = NoneVal
           THEN FindColumnByType(df, <<"value", "quantity", "price", "size">>)
           ELSE req.y_column,
   color |-> IF req.color_by = NoneVal /\ req.type \notin {"pie", "count"}
               THEN FindColumnByType(df, <<"category", "status">>)
               ELSE req.color_by]

(* The dispatch of create_visualization on the kind, with the columns u   *)
(* in use after the discovery                                             *)
Dispatch(df, type, u) ==
  CASE type = "bar" -> CreateBarChart(df, u.x, u.y, u.color)
    [] type = "line" -> CreateLineChart(df, u.x, u.y, u.color)
    [] type = "scatter" -> CreateScatterPlot(df, u.x, u.y, u.color)
    [] type = "pie" -> CreatePieChart(df, u.x, u.y)
    [] type = "count" ->
         IF u.x # NoneVal THEN CreateCountBasedViz(df, u.x, u.color)
         ELSE Result({"error"}, "No column specified for count visualization",
                     NoneVal, NoFigure)
    [] OTHER -> Result({"error"}, "Unsupported visualization type", NoneVal, NoFigure)

(* create_visualization.  NoTable stands for data=None, on which the      *)
(* first use of data.columns raises inside the outer try.                 *)
CreateVisualization(df, req) ==
  IF df = NoTable
    THEN Result({"error", "details", "figure"}, "Failed to create visualization",
                NoneVal, ErrorFigure)
  ELSE Dispatch(df, req.type, Discovered(df, req))

(* The columns in use when create_visualization dispatches (its locals    *)
(* x_column, y_column, color_by); none when it raised before              *)
NoUsed == [x |-> NoneVal, y |-> NoneVal, color |-> NoneVal]
UsedColumns(df, req) == IF df = NoTable THEN NoUsed ELSE Discovered(df, req)

(* ------------------------------ inputs -------------------------------- *)
(* A column as read_csv loads it: numbers and nulls ("num"), or text and  *)
(* nulls ("text"); "any" is either; "pos" is the numbers 1 and 2 only,    *)
(* "one" the number 1 only                                                *)
Contents(kind, n) ==
  (IF kind \in {"num", "any"} THEN [1..n -> NumVals \cup {Null}] ELSE {})
  \cup (IF kind = "pos" THEN [1..n -> {1, 2}] ELSE {})
  \cup (IF kind = "one" THEN [1..n -> {1}] ELSE {})
  \cup (IF kind \in {"text", "any"}
          THEN {s \in [1..n -> TextVals \cup {Null}] : n = 0 \/ \E i \in 1..n : s[i] # Null}
          ELSE {})

(* The cells of the first k columns of a schema (<<name, kind>> pairs)    *)
RECURSIVE Fills(_, _, _)
Fills(schema, k, n) ==
  IF k = 0 THEN {EmptyMap}
  ELSE {MapSet(d, schema[k][1], s) : d \in Fills(schema, k - 1, n),
                                     s \in Contents(schema[k][2], n)}

(* The tables with the columns of a schema and a number of rows in rows   *)
TablesOver(schema, rows) ==
  UNION {{[cols |-> [i \in 1..Len(schema) |-> schema[i][1]], n |-> n, data |-> d] :
            d \in Fills(schema, Len(schema), n)} : n \in rows}

(* The frames handed to the handler: three schemas of up to SessionRows   *)
(* rows, the frame with no columns, and frames of TieRows rows in which   *)
(* several rows can hold the extreme price                                *)
SessionTables ==
  TablesOver(<<<<"Price", "any">>, <<"Region", "text">>>>, 0..SessionRows)
  \cup TablesOver(<<<<"listing_price", "any">>, <<"City", "text">>>>, 0..SessionRows)
  \cup TablesOver(<<<<"pool", "num">>, <<"Bedrooms", "num">>>>, 0..SessionRows)
  \cup TablesOver(<<>>, {0})
  \cup TablesOver(<<<<"ID", "pos">>, <<"Price", "pos">>>>, {TieRows})

VizTables ==
  TablesOver(<<<<"Category", "text">>, <<"Bedrooms", "one">>>>, 0..MaxRows)
  \cup TablesOver(<<<<"Category", "text">>, <<"Price", "pos">>>>, 0..MaxRows)
  \cup TablesOver(<<<<"Bedrooms", "one">>>>, 0..MaxRows)

Requests ==
  [type : {"bar", "line", "scatter", "pie", "count", "area", "heatmap", "treemap"},
   x_column : {NoneVal, "Category", "Nope"},
   y_column : {NoneVal, "Price"},
   color_by : {NoneVal}]
  \cup [type : {"line"}, x_column : {NoneVal, "Category"}, y_column : {"count"},
        color_by : {NoneVal}]
  \cup [type : {"histogram"}, x_column : {"Category"}, y_column : {NoneVal, "Price"},
        color_by : {NoneVal}]

AveragePriceByRegion == <<"What", "is", "the", "average", "price", "by", "region?">>
HowManyPool == <<"How", "many", "properties", "have", "a", "pool">>

Questions ==
  {AveragePriceByRegion, HowManyPool,
   <<"Average", "price">>, <<"MAX", "price">>, <<"lowest", "price">>,
   <<"count", "bedrooms">>, <<"How", "many", "per", "region">>,
   <<"Show", "a", "chart">>, <<"hello">>}

(* ------------------------------ state --------------------------------- *)
NoQuestion == [query |-> <<>>, memo |-> EmptyMap]
NoAnswer ==
  [status |-> "none", text |-> Text(NoneVal, NoneVal, NoneVal, <<>>, NoValue, <<>>, <<>>),
   viz |-> NoViz]
NoRequest == [type |-> NoneVal, x_column |-> NoneVal, y_column |-> NoneVal, color_by |-> NoneVal]
NoChart ==
  [request |-> NoRequest, used |-> NoUsed, result |-> Result({}, NoneVal, NoneVal, NoFigure)]

(* The remote-answer flow of one query: where app.process_query stands    *)
(* (pc), the number of the attempt awaited, the outcomes of the attempts  *)
(* made, the number of asyncio.sleep calls that completed (delays), what  *)
(* answer_query returned (reply), who answered (by) and the note appended *)
(* to the answer                                                          *)
NoReply == [text |-> NoneVal, viz |-> NoViz]
Idle ==
  [pc |-> "idle", attempt |-> 0, outcomes |-> <<>>, delays |-> 0, reply |-> NoReply,
   by |-> NoneVal, note |-> NoneVal]

(* A second session: its own file state, question and answer *)
NoSession == [file_state |-> NoTable, asked |-> NoQuestion, answer |-> NoAnswer]

(* ------------------------------ uploads ------------------------------- *)
(* The module-level file_handler of app.py, shared by every call of       *)
(* upload_file: its _dataframe is a reference to a frame (the number of   *)
(* the call that read it, 0 for None), its _file_info the summary last    *)
(* stored. frames holds the frame objects, calls the position, the file   *)
(* and the locals of the two calls                                        *)
Callers == {1, 2}

NoFile == [name |-> NoneVal, kind |-> NoneVal, table |-> NoTable]
NoInfo == [filename |-> NoneVal, rows |-> 0, columns |-> 0, column_names |-> <<>>,
           numeric_columns |-> <<>>]
NoReturn == [dataframe |-> 0, file_info |-> NoInfo, message |-> NoneVal]
NoCall == [pc |-> "idle", file |-> NoFile, dataframe |-> 0, file_info |-> NoInfo,
           returned |-> NoReturn]
NoHandler ==
  [dataframe |-> 0, file_info |-> NoInfo,
   frames |-> [c \in Callers |-> NoTable], calls |-> [c \in Callers |-> NoCall]]

(* str(col).strip() on the column names of the model *)
StripTable == ("Price " :> "Price") @@ (" City" :> "City")
Strip(name) == IF name \in DOMAIN StripTable THEN StripTable[name] ELSE name

(* df.columns = [str(col).strip() for col in df.columns] *)
CleanColumns(df) ==
  [cols |-> [i \in 1..Len(df.cols) |-> Strip(df.cols[i])], n |-> df.n,
   data |-> [c \in {Strip(d) : d \in DOMAIN df.data} |->
               df.data[CHOOSE d \in DOMAIN df.data : Strip(d) = c]]]

(* select_dtypes(include=['int64', 'float64']).columns.tolist() *)
NumericColumns(df) == SelectSeq(df.cols, LAMBDA c : ~HasText(df, c))

(* The _file_info dictionary of load_csv: the name of the call's own      *)
(* file, the rest read from the frame self._dataframe refers to           *)
FileInfo(file, df) ==
  [filename |-> file.name, rows |-> df.n, columns |-> Len(df.cols),
   column_names |-> df.cols, numeric_columns |-> NumericColumns(df)]

(* The table a frame reference stands for *)
Frame(ref) == IF ref = 0 THEN NoTable ELSE file_handler.frames[ref]

(* The state a return value puts in the session's gr.State *)
StateOf(ret, frames) == IF ret.dataframe = 0 THEN NoTable ELSE frames[ret.dataframe]

(* The session states after the calls' return values and the frames       *)
(* changed: call 1 is an upload of this session, call 2 of the other      *)
Sessions(calls, frames) ==
  /\ file_state' = (IF calls[1].pc = "returned" THEN StateOf(calls[1].returned, frames)
                    ELSE file_state)
  /\ other' = (IF calls[2].pc = "returned"
                 THEN [other EXCEPT !.file_state = StateOf(calls[2].returned, frames)]
                 ELSE other)

(* return None, message *)
Refused(call, message) ==
  [call EXCEPT !.pc = "returned", !.returned = [NoReturn EXCEPT !.message = message]]

(* upload_file(file) up to load_csv: None is refused at once *)
BeginUpload(c, files) ==
  \E f \in files \cup {NoFile} :
    /\ file_handler.calls[c].pc = "idle"
    /\ LET call == IF f = NoFile THEN Refused(NoCall, "Please upload a CSV file.")
                   ELSE [NoCall EXCEPT !.pc = "loading", !.file = f]
           calls == [file_handler.calls EXCEPT ![c] = call]
       IN /\ file_handler' = [file_handler EXCEPT !.calls = calls]
          /\ Sessions(calls, file_handler.frames)
    /\ UNCHANGED <<column_map, asked, answer, chart, agent>>

(* load_csv: the size check, then self._dataframe = pd.read_csv(...);     *)
(* read_csv raising leaves _dataframe as it was                           *)
ReadCsv(c) ==
  LET call == file_handler.calls[c] IN
  /\ call.pc = "loading"
  /\ IF call.file.kind = "csv"
       THEN /\ file_handler' =
                 [file_handler EXCEPT !.dataframe = c, !.frames[c] = call.file.table,
                                      !.calls[c].pc = "read"]
            /\ UNCHANGED <<file_state, other>>
       ELSE LET calls == [file_handler.calls EXCEPT ![c] =
                            Refused(call, IF call.file.kind = "large"
                                            THEN "File size exceeds 25MB limit"
                                            ELSE "The file is empty")]
            IN /\ file_handler' = [file_handler EXCEPT !.calls = calls]
               /\ Sessions(calls, file_handler.frames)
  /\ UNCHANGED <<column_map, asked, answer, chart, agent>>

(* load_csv: the column names of the frame self._dataframe refers to now  *)
(* are cleaned in place, whoever holds a reference to it                  *)
Clean(c) ==
  /\ file_handler.calls[c].pc = "read"
  /\ LET ref == file_handler.dataframe
         frames == [file_handler.frames EXCEPT ![ref] = CleanColumns(@)]
     IN /\ file_handler' = [file_handler EXCEPT !.frames = frames, !.calls[c].pc = "cleaned"]
        /\ Sessions(file_handler.calls, frames)
  /\ UNCHANGED <<column_map, asked, answer, chart, agent>>

(* load_csv: self._file_info = {...}; return True, ... *)
StoreInfo(c) ==
  /\ file_handler.calls[c].pc = "cleaned"
  /\ file_handler' =
       [file_handler EXCEPT !.file_info = FileInfo(file_handler.calls[c].file,
                                                   Frame(file_handler.dataframe)),
                            !.calls[c].pc = "loaded"]
  /\ UNCHANGED <<file_state, column_map, asked, answer, chart, agent, other>>

(* dataframe = file_handler.get_dataframe() *)
GetDataframe(c) ==
  /\ file_handler.calls[c].pc = "loaded"
  /\ file_handler' = [file_handler EXCEPT !.calls[c].dataframe = file_handler.dataframe,
                                          !.calls[c].pc = "got_dataframe"]
  /\ UNCHANGED <<file_state, column_map, asked, answer, chart, agent, other>>

(* file_info = file_handler.get_file_info() *)
GetFileInfo(c) ==
  /\ file_handler.calls[c].pc = "got_dataframe"
  /\ file_handler' = [file_handler EXCEPT !.calls[c].file_info = file_handler.file_info,
                                          !.calls[c].pc = "got_file_info"]
  /\ UNCHANGED <<file_state, column_map, asked, answer, chart, agent, other>>

(* return {"dataframe": dataframe, "file_info": file_info}, "Successfully *)
(* loaded ..."                                                            *)
ReturnState(c) ==
  LET call == file_handler.calls[c] IN
  /\ call.pc = "got_file_info"
  /\ LET calls == [file_handler.calls EXCEPT ![c] =
                     [call EXCEPT !.pc = "returned",
                                  !.returned = [dataframe |-> call.dataframe,
                                                file_info |-> call.file_info,
                                                message |-> "Successfully loaded"]]]
     IN /\ file_handler' = [file_handler EXCEPT !.calls = calls]
        /\ Sessions(calls, file_handler.frames)
  /\ UNCHANGED <<column_map, asked, answer, chart, agent>>

UploadRows == 1

UploadFiles ==
  {[name |-> "prices.csv", kind |-> "csv", table |-> t] :
     t \in TablesOver(<<<<"Price ", "one">>, <<"Region", "text">>>>, {UploadRows})}
  \cup {[name |-> "cities.csv", kind |-> "csv", table |-> t] :
          t \in TablesOver(<<<<" City", "text">>>>, {UploadRows})}
  \cup {[name |-> "empty.csv", kind |-> "empty", table |-> NoTable],
        [name |-> "large.csv", kind |-> "large", table |-> NoTable]}

UploadNext ==
  \E c \in Callers :
    \/ BeginUpload(c, UploadFiles)
    \/ ReadCsv(c)
    \/ Clean(c)
    \/ StoreInfo(c)
    \/ GetDataframe(c)
    \/ GetFileInfo(c)
    \/ ReturnState(c)


Init ==
  /\ file_state = NoTable
  /\ column_map = EmptyMap
  /\ asked = NoQuestion
  /\ answer = NoAnswer
  /\ chart = NoChart
  /\ agent = Idle
  /\ file_handler = NoHandler
  /\ other = NoSession

(* upload_file: the loaded table becomes the session's file state; the    *)
(* module-level basic_handler and its column_map are left as they are     *)
Upload(tables) ==
  \E t \in tables :
    /\ file_state' = t
    /\ asked' = NoQuestion
    /\ answer' = NoAnswer
    /\ UNCHANGED <<column_map, chart, agent, other, file_handler>>

(* app.process_query answered by basic_handler.process_query: asked keeps *)
(* the question and the memo the call started from                        *)
Respond(q, r) ==
  /\ answer' = r.res
  /\ column_map' = r.cm
  /\ asked' = [query |-> q, memo |-> column_map]

Ask(questions) ==
  \E q \in questions :
    /\ file_state # NoTable
    /\ Respond(q, HandlerProcessQuery(q, file_state, column_map))
    /\ UNCHANGED <<file_state, chart, agent, other, file_handler>>

Next == Upload(SessionTables) \/ Ask(Questions)

Spec == Init /\ [][Next]_vars

(* Two calls of upload_file running in worker threads at once *)
UploadSpec == Init /\ [][UploadNext]_vars

(* The visualizer on its own: any table, or none, and any request         *)
VizInit ==
  /\ file_state \in VizTables \cup {NoTable}
  /\ column_map = EmptyMap
  /\ asked = NoQuestion
  /\ answer = NoAnswer
  /\ chart = NoChart
  /\ agent = Idle
  /\ file_handler = NoHandler
  /\ other = NoSession

(* visualizer.create_visualization(data, viz_type, x_column, y_column,    *)
(* color_by): chart keeps the request and the returned Chart Result       *)
Render(requests) ==
  \E req \in requests :
    /\ chart' = [request |-> req, used |-> UsedColumns(file_state, req),
                 result |-> CreateVisualization(file_state, req)]
    /\ UNCHANGED <<file_state, column_map, asked, answer, agent, other, file_handler>>

VizNext == Render(Requests)

VizSpec == VizInit /\ [][VizNext]_vars

(* The handler on tables with feature columns, asked count questions that *)
(* name one feature or several                                            *)
CountRows == 2

CountTables ==
  TablesOver(<<<<"pool", "num">>, <<"Bedrooms", "num">>>>, {CountRows})
  \cup TablesOver(<<<<"garage", "num">>, <<"bathrooms", "num">>>>, {CountRows})

CountQuestions ==
  {<<"count", "bedrooms">>, <<"count", "pool", "and", "bedrooms">>, HowManyPool,
   <<"how", "many", "garage", "bathrooms">>, <<"count", "fireplaces", "pool">>,
   <<"count", "garage">>}

CountInit ==
  /\ file_state \in CountTables
  /\ column_map = EmptyMap
  /\ asked = NoQuestion
  /\ answer = NoAnswer
  /\ chart = NoChart
  /\ agent = Idle
  /\ file_handler = NoHandler
  /\ other = NoSession

CountNext == Ask(CountQuestions)

CountSpec == CountInit /\ [][CountNext]_vars

(* The handler asked for an aggregate in questions that mention one       *)
(* property or two, in either order, on a table that holds both           *)
AggregateRows == 2

AggregateTables ==
  TablesOver(<<<<"sqft", "pos">>, <<"Price", "pos">>>>, {AggregateRows})

AggregateTail(first, second) == <<first, "of", "homes", "with", second, "over", "1">>

AggregateQuestions ==
  {<<k>> \o AggregateTail(p[1], p[2]) :
     k \in {"average", "highest", "lowest"},
     p \in {<<"sqft", "price">>, <<"price", "sqft">>}}
  \cup {<<"average", "sqft">>, <<"highest", "sqft">>, <<"lowest", "price">>}

AggregateInit ==
  /\ file_state \in AggregateTables
  /\ column_map = EmptyMap
  /\ asked = NoQuestion
  /\ answer = NoAnswer
  /\ chart = NoChart
  /\ agent = Idle
  /\ file_handler = NoHandler
  /\ other = NoSession

AggregateNext == Ask(AggregateQuestions)

AggregateSpec == AggregateInit /\ [][AggregateNext]_vars

(* The resolver on its own: _check_column_exists called for a logical     *)
(* name on tables that hold the name, aliases of it, or neither; the      *)
(* answer keeps the column resolved and whether it exists                 *)
ResolveRows == 1

ResolveSchemas ==
  {<<"Region", "Location">>, <<"Location", "Region">>, <<"Area", "Location">>,
   <<"Location", "Area">>, <<"listing_price", "Price">>, <<"Price", "Region">>,
   <<"City", "Bedrooms">>}

ResolveTables ==
  UNION {TablesOver([i \in 1..Len(cols) |-> <<cols[i], "one">>], {ResolveRows}) :
           cols \in ResolveSchemas}

ResolveNames == {"region", "price", "sqft", "city"}

ResolveInit ==
  /\ file_state \in ResolveTables
  /\ column_map = EmptyMap
  /\ asked = NoQuestion
  /\ answer = NoAnswer
  /\ chart = NoChart
  /\ agent = Idle
  /\ file_handler = NoHandler
  /\ other = NoSession

Resolved(name, a, exists) ==
  /\ asked' = [query |-> <<name>>, memo |-> column_map]
  /\ answer' = [status |-> "ok",
                text |-> Text(IF exists THEN "exists" ELSE "missing", name, NoneVal,
                              <<a.col>>, NoValue, <<>>, <<>>),
                viz |-> NoViz]
  /\ column_map' = a.cm

Resolve(names) ==
  \E name \in names :
    /\ Resolved(name, GetActualColumnName(file_state, column_map, name),
                CheckColumnExists(file_state, column_map, name))
    /\ UNCHANGED <<file_state, chart, agent, other, file_handler>>

ResolveNext == Upload(ResolveTables) \/ Resolve(ResolveNames)

ResolveSpec == ResolveInit /\ [][ResolveNext]_vars

(* The handler asked chart questions that name no column, one column or   *)
(* every column of the table                                              *)
ChartRows == 1

ChartTables ==
  TablesOver(<<<<"City", "text">>, <<"Price", "pos">>, <<"Bedrooms", "one">>>>, {ChartRows})
  \cup TablesOver(<<<<"City", "text">>, <<"Category", "text">>>>, {ChartRows})
  \cup TablesOver(<<<<"Price", "pos">>>>, {ChartRows})

ChartQuestions ==
  {<<"Show", "a", "chart">>, <<"pie", "chart">>, <<"line", "plot">>,
   <<"scatter", "plot", "of", "bedrooms", "price", "city">>,
   <<"bar", "plot", "of", "price">>, <<"line", "pie", "graph", "bedrooms", "price">>,
   <<"scatter", "graph">>}

ChartInit ==
  /\ file_state \in ChartTables
  /\ column_map = EmptyMap
  /\ asked = NoQuestion
  /\ answer = NoAnswer
  /\ chart = NoChart
  /\ agent = Idle
  /\ file_handler = NoHandler
  /\ other = NoSession

ChartNext == Ask(ChartQuestions)

ChartSpec == ChartInit /\ [][ChartNext]_vars

(* The handler on tables with a region and a price column, asked region   *)
(* questions                                                              *)
RegionRows == 2

RegionTables == TablesOver(<<<<"Price", "pos">>, <<"Region", "text">>>>, {RegionRows})

RegionQuestions ==
  {<<"How", "many", "per", "region">>, <<"count", "by", "location">>,
   AveragePriceByRegion, <<"avg", "price", "per", "region">>,
   <<"price", "average", "by", "area">>, <<"regions">>}

RegionInit ==
  /\ file_state \in RegionTables
  /\ column_map = EmptyMap
  /\ asked = NoQuestion
  /\ answer = NoAnswer
  /\ chart = NoChart
  /\ agent = Idle
  /\ file_handler = NoHandler
  /\ other = NoSession

RegionNext == Ask(RegionQuestions)

RegionSpec == RegionInit /\ [][RegionNext]_vars

(* The visualizer on tables whose column names match several types and    *)
(* aliases, with requests that leave axes and color unset                 *)
DiscoveryRows == 1

DiscoverySchemas ==
  {<<"Status", "Category">>, <<"State", "Location">>, <<"Location", "State">>,
   <<"Price", "Total_Count">>, <<"Total_Count", "Price">>, <<"sqft", "Price">>,
   <<"Area", "sqft">>, <<"Bedrooms">>, <<"Property_Type", "Status", "Price">>,
   <<"Status", "Region", "sqft">>}

DiscoveryTables ==
  UNION {TablesOver([i \in 1..Len(cols) |-> <<cols[i], "one">>], {DiscoveryRows}) :
           cols \in DiscoverySchemas}

DiscoveryRequests ==
  [type : {"bar", "line", "scatter", "pie", "count"},
   x_column : {NoneVal, "Price"},
   y_column : {NoneVal, "Price"},
   color_by : {NoneVal, "Status"}]

DiscoveryInit ==
  /\ file_state \in DiscoveryTables
  /\ column_map = EmptyMap
  /\ asked = NoQuestion
  /\ answer = NoAnswer
  /\ chart = NoChart
  /\ agent = Idle
  /\ file_handler = NoHandler
  /\ other = NoSession

DiscoveryNext == Render(DiscoveryRequests)

DiscoverySpec == DiscoveryInit /\ [][DiscoveryNext]_vars

(* The handler on its own: a table, and questions that several patterns  *)
(* of supported_queries match                                             *)
ClassifierQuestions ==
  Questions
  \cup {<<"Show", "a", "chart", "by", "region">>, <<"MAX", "average", "price">>,
        <<"lowest", "max", "price">>, <<"count", "the", "average", "bedrooms">>,
        <<"plot", "how", "many", "pool">>, <<"graph", "location">>,
        <<"price", "average">>}

QueryInit ==
  /\ file_state \in SessionTables
  /\ column_map = EmptyMap
  /\ asked = NoQuestion
  /\ answer = NoAnswer
  /\ chart = NoChart
  /\ agent = Idle
  /\ file_handler = NoHandler
  /\ other = NoSession

QueryNext == Ask(ClassifierQuestions)

QuerySpec == QueryInit /\ [][QueryNext]_vars

(* Two sessions, each holding its own table in its gr.State, put their    *)
(* questions to the one module-level basic_handler in any order           *)
TwoQuestions ==
  {<<"Average", "price">>, AveragePriceByRegion, <<"MAX", "price">>,
   <<"How", "many", "per", "region">>}

TwoInit ==
  /\ file_state \in TablesOver(<<<<"Price", "one">>, <<"Region", "text">>>>, {SessionRows})
  /\ other \in {[NoSession EXCEPT !.file_state = t] :
                  t \in TablesOver(<<<<"listing_price", "one">>, <<"City", "text">>>>,
                                   {SessionRows})}
  /\ column_map = EmptyMap
  /\ asked = NoQuestion
  /\ answer = NoAnswer
  /\ chart = NoChart
  /\ agent = Idle
  /\ file_handler = NoHandler

(* process_query of the second session, answered by basic_handler *)
RespondOther(q, r) ==
  /\ other' = [other EXCEPT !.asked = [query |-> q, memo |-> column_map],
                            !.answer = r.res]
  /\ column_map' = r.cm

AskOther(questions) ==
  \E q \in questions :
    /\ other.file_state # NoTable
    /\ RespondOther(q, HandlerProcessQuery(q, other.file_state, column_map))
    /\ UNCHANGED <<file_state, asked, answer, chart, agent, file_handler>>

TwoNext == Ask(TwoQuestions) \/ AskOther(TwoQuestions)

TwoSpec == TwoInit /\ [][TwoNext]_vars

(* ------------------------- remote-answer flow ------------------------- *)
max_retries == 3

TimedOutText == "The request timed out. The server might be busy. Please try again in a moment."
ConnectErrorText == "Error connecting to the language model server"
ParseErrorText == "Error parsing response"
ProcessErrorText == "Error processing query"
CouldntFormatText == "I couldn't format the response properly."
EnterQuestionText == "Please enter a question about the data."
UploadFirstText == "Please upload a CSV file first."

(* The answers a completion carries in the model *)
PlainAnswer == "The average price is 3."
ErrorBarsAnswer == "Error bars are wide for this column."

(* str.startswith on the texts of the model: the prefixes, of those the   *)
(* code tests, that a text begins with                                    *)
PrefixTable ==
  (TimedOutText :> {"The request timed out"}) @@ (ConnectErrorText :> {"Error"})
  @@ (ParseErrorText :> {"Error"}) @@ (ProcessErrorText :> {"Error"})
  @@ (ErrorBarsAnswer :> {"Error"})

AnswerStartsWith(text, prefix) == text \in DOMAIN PrefixTable /\ prefix \in PrefixTable[text]

(* What one client.post of _make_request_with_retry yields: a timeout, a  *)
(* connection error, HTTP 500, another error status, a body that is not   *)
(* the expected JSON, or a completion: without braces (no_json), with     *)
(* braces around something QueryResponse rejects (bad_json), or with the  *)
(* fields of QueryResponse (ok)                                           *)
Reply(kind, text, needed, viz_type, has_columns, viz_columns) ==
  [kind |-> kind, answer |-> text, visualization_needed |-> needed, viz_type |-> viz_type,
   has_columns |-> has_columns, viz_columns |-> viz_columns]

Failed(kind) == Reply(kind, NoneVal, FALSE, NoneVal, FALSE, <<>>)

RetriedKinds == {"timeout", "request_error", "http500"}

Replies ==
  {Failed(k) : k \in RetriedKinds \cup {"status_error", "bad_body", "no_json", "bad_json"}}
  \cup {Reply("ok", a, FALSE, NoneVal, FALSE, <<>>) : a \in {PlainAnswer, ErrorBarsAnswer}}
  \cup {Reply("ok", PlainAnswer, TRUE, "bar", TRUE, c) :
          c \in {<<>>, <<"Region">>, <<"Region", "Price">>}}
  \cup {Reply("ok", PlainAnswer, TRUE, "bar", FALSE, <<>>)}

(* answer_query when _make_request_with_retry raised on the last attempt  *)
RequestFailed(kind) ==
  [text |-> IF kind = "timeout" THEN TimedOutText ELSE ConnectErrorText, viz |-> NoViz]

(* answer_query on what the request returned or raised without a retry    *)
ParseReply(r) ==
  CASE r.kind \in {"status_error", "bad_body"} -> [text |-> ProcessErrorText, viz |-> NoViz]
    [] r.kind = "no_json" -> [text |-> CouldntFormatText, viz |-> NoViz]
    [] r.kind = "bad_json" -> [text |-> ParseErrorText, viz |-> NoViz]
    [] OTHER ->
         IF r.visualization_needed /\ r.viz_type # NoneVal
           THEN IF ~r.has_columns
                  THEN [text |-> ProcessErrorText, viz |-> NoViz]
                  ELSE [text |-> r.answer,
                        viz |-> [type |-> r.viz_type, columns |-> <<>>,
                                 x_column |-> IF Len(r.viz_columns) > 0
                                                THEN r.viz_columns[1] ELSE NoneVal,
                                 y_column |-> IF Len(r.viz_columns) > 1
                                                THEN r.viz_columns[2] ELSE NoneVal,
                                 title |-> <<>>]]
           ELSE [text |-> r.answer, viz |-> NoViz]

(* A test for the "Error" prefix alone *)
StartsWithError(text) == AnswerStartsWith(text, "Error")

(* app.process_query: the test that hands the question to basic_handler   *)
FallsBack(text) ==
  AnswerStartsWith(text, "Error") \/ AnswerStartsWith(text, "The request timed out")

(* The arguments app.process_query passes to create_visualization *)
VizRequest(viz) ==
  [type |-> viz.type, x_column |-> viz.x_column, y_column |-> viz.y_column,
   color_by |-> NoneVal]

(* The note app.process_query appends to the answer for a Chart Result *)
VizNote(result) ==
  IF "error" \in result.keys
    THEN IF "figure" \in result.keys THEN "issue_simplified" ELSE "couldnt_create"
  ELSE IF "figure" \in result.keys
    THEN IF "warning" \in result.keys THEN "warning" ELSE NoneVal
  ELSE "unexpected_format"

AppRows == 1

AppTables ==
  TablesOver(<<<<"Price", "any">>>>, {AppRows})
  \cup TablesOver(<<<<"pool", "one">>, <<"Bedrooms", "one">>>>, {AppRows})
  \cup TablesOver(<<<<"Price", "pos">>, <<"Region", "text">>>>, {AppRows})

AppQuestions ==
  {<<>>, <<"Average", "price">>, <<"count", "bedrooms">>, AveragePriceByRegion, <<"hello">>}

AppInit ==
  /\ file_state \in AppTables \cup {NoTable}
  /\ column_map = EmptyMap
  /\ asked = NoQuestion
  /\ answer = NoAnswer
  /\ chart = NoChart
  /\ agent = Idle
  /\ file_handler = NoHandler
  /\ other = NoSession

(* app.process_query up to the first client.post: the early returns for   *)
(* an empty question and for no file state, else the first attempt waits  *)
Submit(questions) ==
  \E q \in questions :
    /\ agent.pc \in {"idle", "done"}
    /\ asked' = [query |-> q, memo |-> column_map]
    /\ answer' = NoAnswer
    /\ chart' = NoChart
    /\ agent' =
         IF q = <<>>
           THEN [Idle EXCEPT !.pc = "done", !.by = "app",
                             !.reply = [text |-> EnterQuestionText, viz |-> NoViz]]
         ELSE IF file_state = NoTable
           THEN [Idle EXCEPT !.pc = "done", !.by = "app",
                             !.reply = [text |-> UploadFirstText, viz |-> NoViz]]
         ELSE [Idle EXCEPT !.pc = "waiting", !.attempt = 1]
    /\ UNCHANGED <<file_state, column_map, other, file_handler>>

(* basic_handler.process_query as the fallback calls it: when the call   *)
(* in the try block raises, the except branch calls it once more, with    *)
(* the memo the first call left                                           *)
CalledAgain(q, df, h) ==
  IF h.res.status = "raised" THEN HandlerProcessQuery(q, df, h.cm) ELSE h

Fallback(q, df, cm) == CalledAgain(q, df, HandlerProcessQuery(q, df, cm))

(* The end of app.process_query: the answer, the plot and the note of the *)
(* visualization result, when the answer carries a request                *)
Finish(r, rep, fb, h, viz, result) ==
  /\ answer' = IF fb THEN h.res ELSE NoAnswer
  /\ column_map' = IF fb THEN h.cm ELSE column_map
  /\ chart' = IF viz # NoViz
                THEN [request |-> VizRequest(viz),
                      used |-> UsedColumns(file_state, VizRequest(viz)), result |-> result]
              ELSE NoChart
  /\ agent' = [agent EXCEPT !.pc = "done",
                            !.outcomes = Append(@, r),
                            !.reply = rep,
                            !.by = IF fb THEN "basic" ELSE "llm",
                            !.note = IF viz # NoViz THEN VizNote(result) ELSE NoneVal]

(* The visualization of the request viz of the answer that is returned    *)
Visualize(r, rep, fb, h, viz) ==
  Finish(r, rep, fb, h, viz, CreateVisualization(file_state, VizRequest(viz)))

(* The answer that is returned: the handler's when fb, else the reply's   *)
Answering(r, rep, fb, h) ==
  Visualize(r, rep, fb, h, IF fb THEN h.res.viz ELSE rep.viz)

(* The rest of app.process_query once answer_query returned rep: the      *)
(* fallback to basic_handler.process_query and the visualization of the   *)
(* answer's request                                                       *)
Deliver(r, rep) ==
  Answering(r, rep, FallsBack(rep.text), Fallback(asked.query, file_state, column_map))

(* A retry test that never gives up *)
RetriesAlways(r, attempt) == r.kind \in RetriedKinds

(* The failure r of an attempt is retried: a timeout, request error or    *)
(* status 500 on an attempt that is not the last                          *)
Retries(r, attempt) == r.kind \in RetriedKinds /\ attempt < max_retries

(* One client.post of _make_request_with_retry completes: a failure that  *)
(* is retried leads to asyncio.sleep; anything else, or the failure of    *)
(* the last attempt, ends answer_query and app.process_query runs on      *)
Attempt(replies) ==
  \E r \in replies :
    /\ agent.pc = "waiting"
    /\ IF Retries(r, agent.attempt)
         THEN /\ agent' = [agent EXCEPT !.pc = "sleeping", !.outcomes = Append(@, r)]
              /\ UNCHANGED <<answer, column_map, chart>>
         ELSE Deliver(r, IF r.kind \in RetriedKinds THEN RequestFailed(r.kind)
                                                    ELSE ParseReply(r))
    /\ UNCHANGED <<file_state, asked, other, file_handler>>

(* asyncio.sleep(2) completes and the loop posts the next attempt *)
Resume ==
  /\ agent.pc = "sleeping"
  /\ agent' = [agent EXCEPT !.pc = "waiting", !.attempt = @ + 1, !.delays = @ + 1]
  /\ UNCHANGED <<file_state, column_map, asked, answer, chart, other, file_handler>>

AppNext == Submit(AppQuestions) \/ Attempt(Replies) \/ Resume

AppSpec == AppInit /\ [][AppNext]_vars

(* The application asked for the average price by region on tables in     *)
(* which two rows can be of one region                                    *)
BreakdownRows == 2

BreakdownTables ==
  TablesOver(<<<<"Price", "pos">>, <<"Region", "text">>>>, {BreakdownRows})

BreakdownInit ==
  /\ file_state \in BreakdownTables
  /\ column_map = EmptyMap
  /\ asked = NoQuestion
  /\ answer = NoAnswer
  /\ chart = NoChart
  /\ agent = Idle
  /\ file_handler = NoHandler
  /\ other = NoSession

BreakdownNext == Submit({AveragePriceByRegion}) \/ Attempt(Replies) \/ Resume

BreakdownSpec == BreakdownInit /\ [][BreakdownNext]_vars


(* ============================== claims ================================ *)
(* While asked holds a question, file_state is the table it was asked     *)
(* about and asked.memo the memo the handler started from.                *)
Answered == asked # NoQuestion
AskedQuery == LowerSeq(asked.query)
AskedMemo == InitColumnMap(file_state, asked.memo)
ResolvedAtAsk(key) == GetActualColumnName(file_state, AskedMemo, key).col
ResolvableAtAsk(key) == ResolvedAtAsk(key) \in Columns(file_state)
LineSum(lines) == SumSeq([k \in 1..Len(lines) |-> lines[k].sum])
Labels(lines) == [k \in 1..Len(lines) |-> lines[k].label]

(* C1: whatever tables were loaded and questions answered before, the     *)
(* handler resolves a logical key against the loaded table as a handler   *)
(* with no memo would: when the table has a column for the key (for       *)
(* 'price': 'listing_price' and no 'Price'), resolve returns that column  *)
(* and exists is true; never a column memoized for an earlier table.      *)
C1_NoStaleMapping ==
  file_state # NoTable =>
    \A key \in DOMAIN column_aliases :
      LET fresh == GetActualColumnName(file_state, EmptyMap, key).col
      IN fresh \in Columns(file_state) =>
           /\ GetActualColumnName(file_state, column_map, key).col = fresh
           /\ CheckColumnExists(file_state, column_map, key)

(* The known aliases of the logical keys as the specification lists them  *)
C2_KnownAliases ==
  [region |-> {"location", "area", "neighborhood", "city", "state", "country", "zone"},
   sqft |-> {"square_feet", "sq_ft", "square_footage", "size"},
   garage |-> {"garage_spaces", "garages"},
   fireplace |-> {"fireplaces"},
   pool |-> {"has_pool"},
   price |-> {"listing_price", "sale_price", "value"}]

(* C2: for every logical key L, when the loaded table has no column equal *)
(* to L case-insensitively but has one equal to a known alias of L,       *)
(* resolve returns such a column, and a second resolve returns the same.  *)
C2_AliasResolves ==
  file_state # NoTable =>
    \A key \in DOMAIN C2_KnownAliases :
      LET aliased == {file_state.cols[i] : i \in UNION {MatchingColumns(file_state, a) :
                                                          a \in C2_KnownAliases[key]}}
          first == GetActualColumnName(file_state, column_map, key)
          second == GetActualColumnName(file_state, first.cm, key)
      IN (MatchingColumns(file_state, key) = {} /\ aliased # {}) =>
           (first.col \in aliased /\ second.col = first.col)

(* C3: process_query never raises to its caller: every question on every  *)
(* table is answered with an (answer, visualization) pair.                *)
C3_NeverRaises == Answered => answer.status = "ok"

(* C7: for a count question about a feature whose column is in the table, *)
(* the counts reported in the answer sum to the number of rows.           *)
C7_CountsSumToRows ==
  (Answered /\ Classify(AskedQuery) = "count") =>
    LET feature == FirstMentioned(AskedQuery, CountFeatures)
    IN GetActualColumnName(file_state, EmptyMap, feature).col \in Columns(file_state) =>
         (answer.status = "ok" /\ LineSum(answer.text.lines) = file_state.n)

(* C9: on a table where price and region resolve, 'What is the average    *)
(* price by region?' is answered with "The average price overall is ..."  *)
(* and one breakdown line per distinct region value in sorted order, and  *)
(* a bar-chart request over the resolved region and price columns.        *)
C9_AveragePriceByRegion ==
  (Answered /\ asked.query = AveragePriceByRegion
     /\ ResolvableAtAsk("price") /\ ResolvableAtAsk("region")) =>
    /\ answer.status = "ok"
    /\ answer.text.kind = "average_by_region"
    /\ answer.text.col = "price"
    /\ Labels(answer.text.lines) = SortSet(Distinct(file_state, ResolvedAtAsk("region")))
    /\ answer.viz.type = "bar"
    /\ answer.viz.columns = <<ResolvedAtAsk("region"), ResolvedAtAsk("price")>>

(* The logical columns a question needs: the aggregated or counted        *)
(* property, the region column of a grouping or of a region question      *)
C10_Required(q) ==
  LET t == Classify(q)
  IN IF t \in {"average", "maximum", "minimum"}
       THEN {FirstMentioned(q, AggregateColumns)}
            \cup (IF t = "average" /\ (InQuery2(q, "by", "region") \/ InQuery2(q, "by", "area"))
                    THEN {"region"} ELSE {})
     ELSE IF t = "count" THEN {FirstMentioned(q, CountFeatures)}
     ELSE IF t = "region"
       THEN {"region"} \cup (IF (InQuery2(q, "average", "price") \/ InQuery2(q, "avg", "price"))
                                  /\ ~(InQuery(q, "count") \/ InQuery2(q, "how", "many"))
                               THEN {"price"} ELSE {})
     ELSE {}

(* C10: when a logical column an average, max, min, count or region       *)
(* question needs cannot be resolved in the table, the answer is the      *)
(* message that names a missing logical column and lists all the columns  *)
(* of the table, and there is no visualization request.                   *)
C10_MissingColumnMessage ==
  Answered =>
    LET missing == {key \in C10_Required(AskedQuery) \ {NoneVal} : ~ResolvableAtAsk(key)}
    IN missing # {} =>
         /\ answer.status = "ok"
         /\ answer.text.missing \in missing
         /\ answer.text.columns = file_state.cols
         /\ answer.viz = NoViz

(* C10 read narrowly: the column the question aggregates, counts or, for  *)
(* a region question, groups by is the one that cannot be resolved        *)
C10_PrimaryColumnMessage ==
  Answered =>
    LET t == Classify(AskedQuery)
        key == IF t \in {"average", "maximum", "minimum"}
                 THEN FirstMentioned(AskedQuery, AggregateColumns)
               ELSE IF t = "count" THEN FirstMentioned(AskedQuery, CountFeatures)
               ELSE IF t = "region" THEN "region" ELSE NoneVal
    IN (key # NoneVal /\ ~ResolvableAtAsk(key)) =>
         /\ answer.status = "ok"
         /\ answer.text.missing = key
         /\ answer.text.columns = file_state.cols
         /\ answer.viz = NoViz

(* The detail suffix the claim describes: for each of id, bedrooms,       *)
(* bathrooms, region that resolves to a column, the cell of the given row *)
RECURSIVE C11_Suffix(_, _)
C11_Suffix(row, k) ==
  IF k = 0 THEN <<>>
  ELSE C11_Suffix(row, k - 1)
       \o (IF ResolvableAtAsk(DetailColumns[k])
             THEN <<[name |-> DetailColumns[k],
                     val |-> file_state.data[ResolvedAtAsk(DetailColumns[k])][row]]>>
             ELSE <<>>)

C11_Column == ResolvedAtAsk(FirstMentioned(AskedQuery, AggregateColumns))
C11_Asked ==
  /\ Answered /\ Classify(AskedQuery) \in {"maximum", "minimum"}
  /\ C11_Column \in Columns(file_state)
  /\ file_state.n >= 1
  /\ \A i \in 1..file_state.n : IsNum(file_state.data[C11_Column][i])

(* C11: a max (min) question on a column of non-null numbers reports the  *)
(* greatest (least) cell of the column, and its detail suffix holds, for  *)
(* exactly those of id, bedrooms, bathrooms, region that resolve to a     *)
(* column, the cell of the first row in table order that attains it.      *)
C11_ExtremeAndFirstRow ==
  C11_Asked =>
    LET cells == {file_state.data[C11_Column][i] : i \in 1..file_state.n}
        isMax == Classify(AskedQuery) = "maximum"
        ext == CHOOSE v \in cells :
                 \A w \in cells : IF isMax THEN v >= w ELSE v <= w
        first == CHOOSE i \in 1..file_state.n :
                   /\ file_state.data[C11_Column][i] = ext
                   /\ \A j \in 1..(i - 1) : file_state.data[C11_Column][j] # ext
    IN /\ answer.status = "ok"
       /\ answer.text.kind = (IF isMax THEN "max" ELSE "min")
       /\ answer.text.value.sum = ext /\ answer.text.value.n = 1
       /\ answer.text.details = C11_Suffix(first, Len(DetailColumns))

(* C11 witness: a max question on a table in which two rows hold the      *)
(* greatest price and differ in the id reported in the suffix             *)
C11_Witness ==
  /\ C11_Asked /\ Classify(AskedQuery) = "maximum"
  /\ file_state.n = 2
  /\ file_state.data[C11_Column][1] = file_state.data[C11_Column][2]
  /\ ResolvableAtAsk("id")
  /\ file_state.data[ResolvedAtAsk("id")][1] # file_state.data[ResolvedAtAsk("id")][2]
  /\ Len(answer.text.details) = 1

(* The intent of a question by the claimed order of the tests *)
C15_Intent(q) ==
  IF Matches(q, "average") THEN "average"
  ELSE IF Matches(q, "maximum") THEN "maximum"
  ELSE IF Matches(q, "minimum") THEN "minimum"
  ELSE IF Matches(q, "count") THEN "count"
  ELSE IF Matches(q, "region") THEN "region"
  ELSE IF Matches(q, "chart") THEN "chart"
  ELSE "none"

(* The answers each handler returns *)
C15_Kinds ==
  [average |-> {"average", "average_by_region", "average_groupby_error", "average_no_region",
                "average_specify", "not_found_the"},
   maximum |-> {"max", "max_specify", "not_found_the"},
   minimum |-> {"min", "min_specify", "not_found_the"},
   count |-> {"count", "count_pool", "count_specify", "not_found_a"},
   region |-> {"region_count", "region_average", "region_groupby_error", "region_generic",
               "not_found_a"},
   chart |-> {"chart"},
   none |-> {"dont_understand"}]

(* C15: the lowercased question is answered by the handler of the first   *)
(* intent, in the order average, maximum, minimum, count, region, chart,  *)
(* whose pattern matches, also when later patterns match; a question no   *)
(* pattern matches gets the "I don't understand" answer and no            *)
(* visualization request.                                                 *)
C15_FirstIntentWins ==
  (Answered /\ answer.status = "ok") =>
    /\ answer.text.kind \in C15_Kinds[C15_Intent(AskedQuery)]
    /\ C15_Intent(AskedQuery) = "none" => answer.viz = NoViz

(* C15 witness: a question with both 'chart' and 'region' in it, on a     *)
(* table with a region column, is answered by the region handler          *)
C15_Witness ==
  /\ Answered /\ asked.query = <<"Show", "a", "chart", "by", "region">>
  /\ Matches(AskedQuery, "chart") /\ Matches(AskedQuery, "region")
  /\ answer.status = "ok" /\ answer.text.kind = "region_generic"

(* The answer of a handler whose memo holds nothing of another table *)
C16_OwnAnswer(session) ==
  HandlerProcessQuery(session.asked.query, session.file_state, EmptyMap).res

(* C16: when two sessions with different tables interleave their          *)
(* questions, each question is answered as by a handler that memoized     *)
(* nothing while answering about the other table.                         *)
C16_NoCrossSessionMemo ==
  /\ Answered =>
       answer = C16_OwnAnswer([file_state |-> file_state, asked |-> asked, answer |-> answer])
  /\ other.asked # NoQuestion => other.answer = C16_OwnAnswer(other)

(* The remote-answer flow has ended for the question in asked: the       *)
(* outcomes of its attempts, the last of them, and the earlier ones       *)
Delivered == agent.pc = "done" /\ agent.by \in {"llm", "basic"}
Outcomes == [i \in 1..Len(agent.outcomes) |-> agent.outcomes[i].kind]
LastOutcome == agent.outcomes[Len(agent.outcomes)]
EarlierOutcomes == {Outcomes[i] : i \in 1..(Len(Outcomes) - 1)}
HandlerAnswer == HandlerProcessQuery(asked.query, file_state, asked.memo).res

(* C12: when an attempt k <= 3 succeeds with a well-formed payload after  *)
(* k-1 timeouts or connection errors, the answer returned is the one      *)
(* parsed from that attempt's completion and the rule-based handler is    *)
(* not invoked.                                                           *)
C12_SuccessAfterRetries ==
  (Delivered /\ LastOutcome.kind = "ok"
     /\ EarlierOutcomes \subseteq {"timeout", "request_error"}) =>
    /\ agent.by = "llm"
    /\ agent.reply.text = LastOutcome.answer
    /\ answer = NoAnswer /\ column_map = asked.memo

C14_FailuresFallBack ==
  (Delivered /\ LastOutcome.kind \in {"timeout", "request_error", "no_json", "bad_json"}) =>
    agent.by = "basic"

(* C17: a request in the positional form {columns: [a, b]} from the       *)
(* rule-based handler is drawn with x_column = a and y_column = b, or no  *)
(* y column when b is 'count': the chart of the query flow has a on its   *)
(* x axis.                                                                *)
C17_PositionalForm ==
  (Delivered /\ agent.by = "basic" /\ answer.status = "ok"
     /\ Len(answer.viz.columns) = 2) =>
    /\ chart.request.x_column = answer.viz.columns[1]
    /\ chart.request.y_column =
         (IF answer.viz.columns[2] = "count" THEN NoneVal ELSE answer.viz.columns[2])
    /\ chart.result.figure.x = answer.viz.columns[1]

Rendered == chart.request # NoRequest
DiscoveredY == FindColumnByType(file_state, <<"value", "quantity", "price", "size">>)
DiscoveredX == FindColumnByType(file_state, <<"category", "region", "product", "status">>)

(* C4: whenever building a chart raises (here: the request names an x     *)
(* column the table does not have, for a kind built from x), the Chart    *)
(* Result carries an error, the details and a placeholder figure.         *)
C4_BuildErrorCarriesAll ==
  (Rendered /\ file_state # NoTable
     /\ chart.request.type \in {"bar", "pie", "count"}
     /\ chart.request.x_column # NoneVal
     /\ chart.request.x_column \notin Columns(file_state)) =>
    /\ {"error", "details", "figure"} \subseteq chart.result.keys
    /\ chart.result.figure = ErrorFigure

(* C5: a line, scatter, area or heatmap request whose x or y axis is      *)
(* unset and not discoverable yields a Chart Result with an error and a   *)
(* placeholder figure.                                                    *)
C5_MissingAxisIsError ==
  (Rendered /\ file_state # NoTable
     /\ chart.request.type \in {"line", "scatter", "area", "heatmap"}
     /\ \/ (chart.request.x_column = NoneVal /\ DiscoveredX = NoneVal)
        \/ (chart.request.y_column = NoneVal /\ DiscoveredY = NoneVal)) =>
    /\ "error" \in chart.result.keys /\ chart.result.error # NoneVal
    /\ "figure" \in chart.result.keys /\ chart.result.figure = ErrorFigure

(* C6: every Chart Result holds a figure, a chart or a placeholder.       *)
C6_AlwaysAFigure ==
  Rendered => ("figure" \in chart.result.keys /\ chart.result.figure # NoFigure)

C8_Marks == chart.result.figure.marks
C8_Heights == SumSeq([k \in 1..Len(C8_Marks) |-> C8_Marks[k].y])
C8_BarRequest ==
  /\ Rendered /\ file_state # NoTable
  /\ chart.request.type = "bar"
  /\ chart.request.x_column \in Columns(file_state)
  /\ chart.request.y_column = NoneVal

(* C8 as claimed: a bar request with an existing x column and no y column *)
(* yields one bar per distinct value of x, the heights summing to the     *)
(* number of rows, whatever other columns the table has.                  *)
C8_OneBarPerValue ==
  C8_BarRequest =>
    /\ chart.result.figure.kind = "bar"
    /\ Len(C8_Marks) = Cardinality(Distinct(file_state, chart.request.x_column))
    /\ C8_Heights = file_state.n

(* C8 amended: when heuristic discovery finds no y column in the table,   *)
(* a bar request with an existing x column and no y column yields a chart *)
(* with exactly one bar per distinct non-null value of x, as high as the  *)
(* number of rows holding that value: the heights sum to the number of    *)
(* rows whose x cell is not null.                                         *)
C8_OneBarPerValueWithoutY ==
  (C8_BarRequest /\ DiscoveredY = NoneVal) =>
    LET x == chart.request.x_column
    IN /\ chart.result.keys = {"figure"}
       /\ chart.result.figure.kind = "bar"
       /\ chart.result.figure.x = x
       /\ Len(C8_Marks) = Cardinality(Distinct(file_state, x))
       /\ {C8_Marks[k].x : k \in 1..Len(C8_Marks)} = Distinct(file_state, x)
       /\ \A k \in 1..Len(C8_Marks) :
            C8_Marks[k].y = Cardinality(RowsWith(file_state, x, C8_Marks[k].x))
       /\ C8_Heights = Cardinality(NonNull(file_state, x))

(* C8 witness: a table of three rows with a second column that discovery  *)
(* does not take for y, and a count bar chart of its x column with two    *)
(* bars, one of them two rows high                                        *)
C8_Witness ==
  /\ C8_BarRequest /\ DiscoveredY = NoneVal
  /\ Len(file_state.cols) = 2 /\ file_state.n = 3
  /\ Len(C8_Marks) = 2
  /\ \E k \in 1..2 : C8_Marks[k].y = 2
  /\ C8_Heights = 3

(* The axes create_visualization builds a chart from: the request's, or  *)
(* the discovered ones                                                    *)
UsedX == IF chart.request.x_column # NoneVal THEN chart.request.x_column ELSE DiscoveredX
UsedY == IF chart.request.y_column # NoneVal THEN chart.request.y_column ELSE DiscoveredY

(* The axes a kind of the enumeration needs are in the table *)
C18_AxesPresent ==
  /\ UsedX \in Columns(file_state)
  /\ chart.request.type \in {"heatmap", "area"} => UsedY \in Columns(file_state)

(* C18: a request of kind histogram, box or violin with its x column in   *)
(* the table, or of kind heatmap or area with its x and y columns in the  *)
(* table, yields a chart; with the axes present, only a kind outside      *)
(* supported_plot_types yields 'unsupported visualization type'.          *)
C18_EnumeratedKindsRender ==
  (Rendered /\ file_state # NoTable /\ C18_AxesPresent) =>
    /\ chart.request.type \in {"histogram", "box", "violin", "heatmap", "area"}
         => /\ chart.result.keys = {"figure"}
            /\ chart.result.figure.kind = chart.request.type
    /\ chart.result.error = "Unsupported visualization type"
         => chart.request.type \notin supported_plot_types

(* A value-count bar chart: a bar request with x in the table and no y,   *)
(* given or discovered                                                    *)
C19_CountBars ==
  /\ C8_BarRequest /\ DiscoveredY = NoneVal
  /\ chart.result.keys = {"figure"}

(* The x values of the bars from left to right: a text column is drawn on *)
(* a category axis, in the order of the plotted frame                     *)
C19_Bars == [k \in 1..Len(C8_Marks) |-> C8_Marks[k].x]

(* C19: in a value-count bar chart the bars appear in the sorted order of *)
(* the distinct x values, whatever their counts and the row order.        *)
C19_BarsInNaturalOrder ==
  C19_CountBars => C19_Bars = SortSet(Distinct(file_state, chart.request.x_column))

(* C20: a line request with y_column 'count' on a table with no column of *)
(* that name, and an x column in the table, yields a line chart whose y   *)
(* values are the value counts of the x column, not an error.             *)
C20_LineCountSentinel ==
  (Rendered /\ file_state # NoTable
     /\ chart.request.type = "line" /\ chart.request.y_column = "count"
     /\ "count" \notin Columns(file_state)
     /\ UsedX \in Columns(file_state)) =>
    /\ chart.result.keys = {"figure"}
    /\ chart.result.figure.kind = "line"
    /\ \A k \in 1..Len(C8_Marks) :
         C8_Marks[k].y = Cardinality(RowsWith(file_state, UsedX, C8_Marks[k].x))


(* The aliases of a role: its entries in column_mappings, or the role     *)
(* itself when it has none                                                *)
C21_Aliases(role) ==
  IF role \in DOMAIN column_mappings THEN SeqToSet(column_mappings[role]) ELSE {role}

C21_Contains(name, role) == \E a \in C21_Aliases(role) : a \in Needles(Lower(name))

(* The column the claim describes for a role list: for the earliest role  *)
(* with a match, the first column in table order that contains an alias   *)
C21_Find(roles) ==
  LET cols == file_state.cols
      matched == {r \in 1..Len(roles) :
                    \E i \in 1..Len(cols) : C21_Contains(cols[i], roles[r])}
      role == roles[CHOOSE r \in matched : \A r2 \in matched : r <= r2]
      first == CHOOSE i \in 1..Len(cols) :
                 /\ C21_Contains(cols[i], role)
                 /\ \A j \in 1..(i - 1) : ~C21_Contains(cols[j], role)
  IN IF matched = {} THEN NoneVal ELSE cols[first]

(* C21: an axis the request leaves unset is discovered as the first       *)
(* column, in table order, whose lowercased name contains an alias of the *)
(* earliest role of the role list that has any match: x over category,    *)
(* region, product, status; y over value, quantity, price, size; color    *)
(* over category, status, and color is not discovered for pie or count.   *)
C21_DiscoveryByRole ==
  (Rendered /\ file_state # NoTable) =>
    /\ chart.used.x =
         IF chart.request.x_column = NoneVal
           THEN C21_Find(<<"category", "region", "product", "status">>)
           ELSE chart.request.x_column
    /\ chart.used.y =
         IF chart.request.y_column = NoneVal
           THEN C21_Find(<<"value", "quantity", "price", "size">>)
           ELSE chart.request.y_column
    /\ chart.used.color =
         IF chart.request.color_by = NoneVal /\ chart.request.type \notin {"pie", "count"}
           THEN C21_Find(<<"category", "status">>)
           ELSE chart.request.color_by

(* C21 witness: a bar request with nothing set on a table whose first     *)
(* column matches the later role status and whose second the earlier role *)
(* category: x and color are the second column                            *)
C21_Witness ==
  /\ Rendered /\ file_state.cols = <<"Status", "Category">>
  /\ chart.request = [type |-> "bar", x_column |-> NoneVal, y_column |-> NoneVal,
                      color_by |-> NoneVal]
  /\ chart.used = [x |-> "Category", y |-> NoneVal, color |-> "Category"]


(* The feature a count question is about by the claimed order of tests    *)
C22_Order == <<"bedrooms", "bathrooms", "garage", "fireplace", "pool">>
C22_Feature ==
  C22_Order[CHOOSE k \in 1..Len(C22_Order) :
              /\ InQuery(AskedQuery, C22_Order[k])
              /\ \A j \in 1..(k - 1) : ~InQuery(AskedQuery, C22_Order[j])]
C22_Column == ResolvedAtAsk(C22_Feature)
C22_Rows(v) == {i \in 1..file_state.n : file_state.data[C22_Column][i] = v}
C22_Values ==
  {file_state.data[C22_Column][i] : i \in 1..file_state.n} \ {Null}
C22_Asked ==
  /\ Answered /\ Classify(AskedQuery) = "count"
  /\ \E k \in 1..Len(C22_Order) : InQuery(AskedQuery, C22_Order[k])
  /\ C22_Column \in Columns(file_state)

(* C22: a count question is answered for the first of bedrooms,           *)
(* bathrooms, garage, fireplace, pool that occurs in it, whatever their   *)
(* order in the text; for pool the answer reports the number of rows      *)
(* holding 1 and the number holding 0 with a pie request, for the others  *)
(* one count per distinct value with a bar request, both keyed on the     *)
(* resolved column.                                                       *)
C22_CountDispatch ==
  C22_Asked =>
    /\ answer.status = "ok"
    /\ answer.text.col = C22_Feature
    /\ answer.viz.columns = <<C22_Column, "count">>
    /\ IF C22_Feature = "pool"
         THEN /\ answer.viz.type = "pie"
              /\ Len(answer.text.lines) = 2
              /\ answer.text.lines[1].sum = Cardinality(C22_Rows(1))
              /\ answer.text.lines[2].sum = Cardinality(C22_Rows(0))
         ELSE /\ answer.viz.type = "bar"
              /\ Len(answer.text.lines) = Cardinality(C22_Values)
              /\ {l.label : l \in SeqToSet(answer.text.lines)} = C22_Values
              /\ \A k \in 1..Len(answer.text.lines) :
                   answer.text.lines[k].sum = Cardinality(C22_Rows(answer.text.lines[k].label))

(* C22 witness: a question naming pool before bedrooms, answered with the *)
(* counts of two distinct bedroom values                                  *)
C22_Witness ==
  /\ C22_Asked /\ AskedQuery = <<"count", "pool", "and", "bedrooms">>
  /\ file_state.data["Bedrooms"] = <<2, 1>>
  /\ answer.text.col = "bedrooms" /\ Len(answer.text.lines) = 2
  /\ answer.viz.type = "bar"

(* C22 witness for pool: rows with and without a pool *)
C22_PoolWitness ==
  /\ C22_Asked /\ asked.query = HowManyPool
  /\ file_state.data["pool"] = <<1, 0>>
  /\ answer.viz.type = "pie"


(* The answer the handler gives to question q on the loaded table *)
C23_Handle(q) == HandlerProcessQuery(q, file_state, column_map).res

(* Some region question is given the answer of the named return of        *)
(* _handle_region_query, with a bar request or with none                  *)
C23_Produced(kind, viz_type) ==
  \E q \in RegionQuestions :
    /\ C23_Handle(q).status = "ok"
    /\ C23_Handle(q).text.kind = kind
    /\ C23_Handle(q).viz.type = viz_type

C23_CountsProduced == C23_Produced("region_count", "bar")
C23_AveragesProduced == C23_Produced("region_average", "bar")
C23_GenericProduced == C23_Produced("region_generic", NoneVal)

(* C23: on a table with a region and a price column, each of the three    *)
(* answers of the region intent is given to some question: the counts per *)
(* region with a bar request, the average prices per region with a bar    *)
(* request, and the generic message with no request.                      *)
C23_EachRegionOutcome ==
  C23_CountsProduced /\ C23_AveragesProduced /\ C23_GenericProduced

(* The counts of the region intent and its generic message are given *)
C23_OtherOutcomes == C23_CountsProduced /\ C23_GenericProduced

(* No answer is the average prices of the region intent *)
C23_NoRegionAverages == Answered => answer.text.kind # "region_average"


(* The kind of a chart question as the claim gives it *)
C24_Kind ==
  IF InQuery(AskedQuery, "bar") THEN "bar"
  ELSE IF InQuery(AskedQuery, "pie") THEN "pie"
  ELSE IF InQuery(AskedQuery, "line") THEN "line"
  ELSE IF InQuery(AskedQuery, "scatter") THEN "scatter"
  ELSE "bar"

(* The columns the claim selects: those named in the text, else those of  *)
(* the heuristic of the kind, else the first one or two of the table      *)
C24_Selected ==
  LET cols == file_state.cols
      Named(c) == InQuery(AskedQuery, Lower(c))
      Num(c) == file_state.n > 0 /\ ~HasText(file_state, c)
      Cat(c) == ~Num(c) \/ Cardinality(Distinct(file_state, c)) < NUniqueLimit
      named == SelectSeq(cols, Named)
      cats == SelectSeq(cols, Cat)
      nums == SelectSeq(cols, Num)
      OtherNum(c) == Num(c) /\ c # cats[1]
      others == SelectSeq(cols, OtherNum)
      heur == IF C24_Kind \in {"bar", "pie"}
                THEN IF cats = <<>> THEN <<>>
                     ELSE IF C24_Kind = "bar" /\ others # <<>> THEN <<cats[1], others[1]>>
                     ELSE <<cats[1]>>
                ELSE Take(nums, 2)
  IN IF named # <<>> THEN named ELSE IF heur # <<>> THEN heur ELSE Take(cols, 2)

C24_Asked ==
  /\ Answered /\ Classify(AskedQuery) = "chart" /\ Len(file_state.cols) > 0

(* C24: a chart question is given the first of bar, pie, line, scatter    *)
(* found in its text (bar when none) and at most two columns: those named *)
(* in the text, else those of the heuristic of the kind, else the first   *)
(* one or two of the table; the request's x_column and y_column and its   *)
(* title name exactly the selected columns.                               *)
C24_ChartSelection ==
  C24_Asked =>
    /\ answer.status = "ok"
    /\ answer.viz.type = C24_Kind
    /\ Len(C24_Selected) <= 2
    /\ answer.viz.x_column = C24_Selected[1]
    /\ answer.viz.y_column = (IF Len(C24_Selected) > 1 THEN C24_Selected[2] ELSE NoneVal)
    /\ answer.viz.title = C24_Selected

(* The same for the questions that name at most two columns of the table  *)
C24_UpToTwoNamed ==
  (C24_Asked /\ Len(C24_Selected) <= 2) => C24_ChartSelection


(* The retry loop is running: a post is awaited or a delay is taken *)
C25_Running == agent.pc \in {"waiting", "sleeping"}

(* What is left of the loop: two steps for each attempt not yet made, one *)
(* less once the attempt under way has failed                             *)
C25_Left == 2 * (3 - agent.attempt) + (IF agent.pc = "waiting" THEN 1 ELSE 0)

(* Attempts and delays: whatever the failures, at most 3 attempts    *)
(* are made, one delay has been taken between two consecutive attempts,   *)
(* none after the final one, and a loop that ended with a failure of the  *)
(* final attempt is answered by the recoverable message of answer_query.  *)
C25_AttemptsAndDelays ==
  /\ agent.attempt <= 3 /\ Len(agent.outcomes) <= 3
  /\ agent.pc = "waiting" =>
       agent.attempt = Len(agent.outcomes) + 1 /\ agent.delays = Len(agent.outcomes)
  /\ agent.pc = "sleeping" =>
       /\ agent.attempt = Len(agent.outcomes) /\ agent.attempt < 3
       /\ agent.delays = Len(agent.outcomes) - 1
  /\ Delivered =>
       /\ agent.attempt = Len(agent.outcomes) /\ agent.delays = Len(agent.outcomes) - 1
       /\ LastOutcome.kind \in RetriedKinds =>
            /\ agent.attempt = 3
            /\ agent.reply.text \in {TimedOutText, ConnectErrorText}
            /\ agent.by = "basic"

(* Termination: every step of a running loop ends it or brings it    *)
(* nearer to its end, of which it is never further than six steps, and a  *)
(* post that is awaited accepts every completion.                         *)
C25_EveryStepNearerTheEnd ==
  [][C25_Running =>
       /\ C25_Left \in 1..5
       /\ agent'.pc = "done" \/ (C25_Running' /\ C25_Left' < C25_Left)]_vars

(* C25: for any sequence of timeouts, connection errors and status 500    *)
(* responses the remote call is attempted at most 3 times, with one delay *)
(* between two consecutive attempts and none after the final one, and the *)
(* retry loop ends, within six steps, with a response or with an error    *)
(* that answer_query turns into a recoverable message.                    *)
C25_BoundedRetry == []C25_AttemptsAndDelays /\ C25_EveryStepNearerTheEnd

(* C25 witness: three failures of all three kinds, two delays, and the    *)
(* handler answering under the recoverable message                        *)
C25_Witness ==
  /\ Delivered /\ Len(agent.outcomes) = 3
  /\ Outcomes = <<"timeout", "request_error", "http500">>
  /\ agent.delays = 2
  /\ agent.reply.text = ConnectErrorText /\ agent.by = "basic"


(* The resolver was called for a name the memo did not hold *)
C26_Name == asked.query[1]
C26_Result == answer.text.columns[1]
C26_Exists == answer.text.kind = "exists"
C26_Called ==
  /\ Answered /\ answer.text.kind \in {"exists", "missing"}
  /\ C26_Name \notin DOMAIN asked.memo

C26_Exact == {c \in Columns(file_state) : Lower(c) = C26_Name}
C26_AliasList ==
  IF C26_Name \in DOMAIN column_aliases THEN column_aliases[C26_Name] ELSE <<>>
C26_Holds(k) == \E c \in Columns(file_state) : Lower(c) = C26_AliasList[k]
C26_Matching == {k \in 1..Len(C26_AliasList) : C26_Holds(k)}

(* C26: called for a name the memo does not hold, resolve returns a       *)
(* column equal to the name case-insensitively when there is one, else    *)
(* the column equal to the earliest alias in declared order that some     *)
(* column equals, whatever the column order, and memoizes it; when        *)
(* nothing matches it returns the name unchanged, memoizes nothing, and   *)
(* exists is false.                                                       *)
C26_ResolveOrder ==
  C26_Called =>
    IF C26_Exact # {}
      THEN /\ C26_Result \in C26_Exact /\ C26_Exists
           /\ column_map = MapSet(asked.memo, C26_Name, C26_Result)
    ELSE IF C26_Matching # {}
      THEN /\ \E k \in C26_Matching :
                /\ Lower(C26_Result) = C26_AliasList[k]
                /\ \A j \in C26_Matching : k <= j
           /\ C26_Result \in Columns(file_state) /\ C26_Exists
           /\ column_map = MapSet(asked.memo, C26_Name, C26_Result)
    ELSE /\ C26_Result = C26_Name /\ ~C26_Exists
         /\ column_map = asked.memo

(* C26 witness: 'region' on the table Area, Location is resolved to the   *)
(* second column, whose alias is declared before the first one's          *)
C26_Witness ==
  /\ C26_Called /\ C26_Name = "region"
  /\ file_state.cols = <<"Area", "Location">>
  /\ C26_Result = "Location" /\ C26_Exists

(* The exact match and the miss are reached too *)
C26_ExactWitness ==
  /\ C26_Called /\ C26_Name = "region"
  /\ file_state.cols = <<"Location", "Region">> /\ C26_Result = "Region"
C26_MissWitness ==
  /\ C26_Called /\ C26_Name = "region"
  /\ file_state.cols = <<"City", "Bedrooms">> /\ C26_Result = "region" /\ ~C26_Exists


(* The properties an aggregate question can name, and where it names them *)
C27_Properties == {AggregateColumns[k] : k \in 1..Len(AggregateColumns)}
C27_Keywords == {"average", "avg", "mean", "maximum", "max", "highest",
                 "minimum", "min", "lowest"}
C27_KeywordAt == Min({i \in 1..Len(AskedQuery) : AskedQuery[i] \in C27_Keywords})
C27_Mentions ==
  {i \in 1..Len(AskedQuery) : \E p \in C27_Properties : InQuery(<<AskedQuery[i]>>, p)}
C27_Asked ==
  /\ Answered /\ answer.status = "ok"
  /\ answer.text.kind \in {"average", "max", "min"}
  /\ Cardinality(C27_Mentions) > 1

(* The property named after the keyword: the first one that follows it    *)
C27_Named == AskedQuery[Min({i \in C27_Mentions : i > C27_KeywordAt})]
C27_Column == GetActualColumnName(file_state, asked.memo, C27_Named).col
C27_Cells == {file_state.data[C27_Column][i] : i \in 1..file_state.n}
C27_Value ==
  CASE answer.text.kind = "average" -> MeanOver(file_state, C27_Column, 1..file_state.n)
    [] answer.text.kind = "max" -> [sum |-> Max(C27_Cells), n |-> 1]
    [] OTHER -> [sum |-> Min(C27_Cells), n |-> 1]

(* C27: an average, maximum or minimum question that mentions more than   *)
(* one property is answered with the aggregate of the property named      *)
(* after the keyword.                                                     *)
C27_AggregateOfNamed ==
  C27_Asked =>
    /\ answer.text.col = C27_Named
    /\ answer.text.value = Format(C27_Named, C27_Value)

(* What the handler does: the aggregate is of the first property of its   *)
(* fixed list that the question mentions anywhere                         *)
C27_AggregateOfFirstListed ==
  C27_Asked => answer.text.col = FirstMentioned(AskedQuery, AggregateColumns)

(* 'average sqft of homes with price over 1' is answered with the         *)
(* average of price                                                       *)
C27_SqftAskedPriceAnswered ==
  /\ C27_Asked /\ answer.text.kind = "average"
  /\ C27_Named = "sqft" /\ answer.text.col = "price"


(* The bars of the chart shown: plotly stacks the marks that share an x,  *)
(* so the height of the bar at x is the total of the marks drawn there    *)
C28_Marks == chart.result.figure.marks
RECURSIVE C28_Total(_, _)
C28_Total(x, k) ==
  IF k = 0 THEN 0
  ELSE C28_Total(x, k - 1) + (IF C28_Marks[k].x = x THEN C28_Marks[k].y ELSE 0)
C28_Height(x) == C28_Total(x, Len(C28_Marks))
C28_Bars == {C28_Marks[k].x : k \in 1..Len(C28_Marks)} \ {Null}
C28_Lines == answer.text.lines
C28_Answered ==
  /\ Delivered /\ answer.status = "ok"
  /\ answer.text.kind = "average_by_region"

(* C28: after an 'average price by region' question answered end to end, *)
(* the chart shown is a bar chart with one bar per region of the text     *)
(* answer, of height equal to the mean listed for that region.            *)
C28_ChartMatchesText ==
  C28_Answered =>
    /\ chart.result.keys = {"figure"}
    /\ chart.result.figure.kind = "bar"
    /\ C28_Bars = {C28_Lines[k].label : k \in 1..Len(C28_Lines)}
    /\ \A k \in 1..Len(C28_Lines) :
         C28_Height(C28_Lines[k].label) * C28_Lines[k].n = C28_Lines[k].sum

(* Two rows of one region with prices 1 and 2: the text lists the mean    *)
(* 3/2 and the chart draws both rows at that region                       *)
C28_RowsDrawn ==
  /\ C28_Answered
  /\ chart.result.keys = {"figure"} /\ chart.result.figure.kind = "bar"
  /\ chart.used.x = "Region" /\ chart.used.y = "Price"
  /\ Len(C28_Lines) = 1 /\ C28_Lines[1].sum = 3 /\ C28_Lines[1].n = 2
  /\ Len(C28_Marks) = 2 /\ C28_Height(C28_Lines[1].label) = 3

(* What is drawn: the rows of the table as they are, never an aggregate   *)
C28_ChartDrawsRows ==
  (C28_Answered /\ chart.result.keys = {"figure"}) =>
    C28_Marks = RowMarks(file_state, chart.used.x, chart.used.y)


(* The last attempt got a completion with the fields of QueryResponse     *)
C29_WellFormed == Delivered /\ asked.query # <<>> /\ LastOutcome.kind = "ok"

(* C29: the rule-based handler answers only if the remote call failed;    *)
(* whenever the last attempt returned a well-formed payload, whatever its *)
(* answer text and with or without viz_columns, the answer shown is the   *)
(* remote one.                                                            *)
C29_FallbackOnlyOnFailure ==
  /\ (Delivered /\ agent.by = "basic") => LastOutcome.kind # "ok"
  /\ C29_WellFormed => (agent.by = "llm" /\ agent.reply.text = LastOutcome.answer)

(* A well-formed payload without viz_columns is replaced by the handler's *)
(* answer                                                                 *)
C29_NoColumnsReplaced ==
  /\ C29_WellFormed /\ ~LastOutcome.has_columns
  /\ LastOutcome.answer = PlainAnswer
  /\ agent.by = "basic" /\ answer = HandlerAnswer

(* A well-formed payload whose answer begins with 'Error' is replaced too *)
C29_ErrorTextReplaced ==
  /\ C29_WellFormed /\ LastOutcome.answer = ErrorBarsAnswer
  /\ agent.by = "basic" /\ answer = HandlerAnswer

(* With viz_columns present and an answer that does not begin with one of *)
(* the two failure prefixes, the remote answer is the one shown           *)
C29_RemoteShownOtherwise ==
  (C29_WellFormed /\ LastOutcome.has_columns
     /\ ~AnswerStartsWith(LastOutcome.answer, "Error")
     /\ ~AnswerStartsWith(LastOutcome.answer, "The request timed out")) =>
    (agent.by = "llm" /\ agent.reply.text = LastOutcome.answer)


(* An upload call that returned a state *)
C30_Call(c) == file_handler.calls[c]
C30_Loaded(c) == C30_Call(c).pc = "returned" /\ C30_Call(c).returned.dataframe # 0
C30_OwnTable(c) == CleanColumns(C30_Call(c).file.table)
C30_Table(c) == Frame(C30_Call(c).returned.dataframe)

(* C30: with two uploads running at once through the shared file handler, *)
(* each call that returns a state returns the table loaded from its own   *)
(* file, with the schema summary of that table.                           *)
C30_OwnTableAndSchema ==
  \A c \in Callers :
    C30_Loaded(c) =>
      /\ C30_Call(c).returned.dataframe = c
      /\ C30_Table(c) = C30_OwnTable(c)
      /\ C30_Call(c).returned.file_info = FileInfo(C30_Call(c).file, C30_OwnTable(c))

(* Call 1 uploaded prices.csv and returned the table of cities.csv        *)
C30_OthersTable ==
  /\ C30_Loaded(1) /\ C30_Loaded(2)
  /\ C30_Call(1).file.name = "prices.csv" /\ C30_Call(2).file.name = "cities.csv"
  /\ C30_Call(1).returned.dataframe = 2
  /\ file_state.cols = <<"City">>

(* Call 1 returned a table paired with the summary of another table       *)
C30_MixedSchema ==
  /\ C30_Loaded(1)
  /\ C30_Call(1).returned.file_info.column_names # C30_Table(1).cols

(* An upload that runs while the other call has not begun, or after it    *)
(* returned, returns its own table and summary: only the overlap mixes    *)
C30_AloneOwn ==
  \A c \in Callers :
    (C30_Loaded(c) /\ \A d \in Callers \ {c} : C30_Call(d).pc = "idle") =>
      /\ C30_Call(c).returned.dataframe = c
      /\ C30_Table(c) = C30_OwnTable(c)
      /\ C30_Call(c).returned.file_info = FileInfo(C30_Call(c).file, C30_OwnTable(c))

====
